---- MODULE Spec2Model ----
(***************************************************************************)
(* Model of Fibulopedia.                                                   *)
(*                                                                         *)
(* The travel-route planner (pages/Travel_Calculator.py): the static route *)
(* catalog, build_graph, the best-first search find_all_routes with its    *)
(* post-filter, dijkstra, format_route, and the part of the page handler   *)
(* main() that issues a query, alone (Spec) and as two page sessions       *)
(* running at once (SpecQueries).                                          *)
(* The page-view counter (src/analytics_utils.py, SpecAnalytics) and the   *)
(* password gate of the admin page (pages/Admin_Analytics.py, SpecAdmin).  *)
(***************************************************************************)
EXTENDS Integers, Sequences, FiniteSets, TLC

VARIABLES
    \* the planner, one script run at a time
    pc,                \* position: "idle", "loop", "returned", "done"
    caller,            \* who called: "main", "dijkstra", "direct", "none"
    graph,             \* find_all_routes argument: location -> list of <<neighbor, cost>>
    start,             \* find_all_routes argument
    end,               \* find_all_routes argument
    max_routes,        \* find_all_routes argument
    pq,                \* the heap, as the list of its records
    found_routes,      \* list of <<cost, path>>
    route_signatures,  \* set of accepted paths
    routes,            \* value returned by find_all_routes
    outcome,           \* what main() showed: "none", "same_city_warning", "routes_shown", "no_route_error"
    dijkstra_result,   \* value returned by dijkstra
    path_arg,          \* format_route argument of a direct call
    legs,              \* value returned by format_route to a direct call
    shown,             \* main(): per returned route, its total cost and its legs
    \* two page sessions of one process
    catalog,           \* the module-level tables BOAT_ROUTES, CARPET_ROUTES, ICE_ISLANDS, CARPET_CITIES
    objects,           \* the dict objects build_graph calls have created: id -> graph
    sessions,          \* per session, the locals of its script run
    first_result,      \* the query and the result of the first script run that finished
    \* the page-view counter
    analytics_file,    \* the parsed content of page_analytics.json, or NoFile
    lock,              \* the holder of _lock, or NoThread
    threads,           \* per thread, its position in the function it called and its locals
    tracked,           \* the calls begun; since the start or the last reset: the page views
                       \* then on file, the calls returned per page, the views tracked;
                       \* and the file as the holder of the lock found it
    \* the admin page
    secrets,           \* st.secrets: the configured admin_password, or NoSecret
    session_state,     \* per browser session, st.session_state
    rendered,          \* per browser session, what the last script run rendered
    entered,           \* per browser session, the passwords submitted so far
    \* the services called as functions
    service            \* the call made: the function, its arguments, and how it ended

plannerVars == <<pc, caller, graph, start, end, max_routes, pq, found_routes,
                 route_signatures, routes, outcome, dijkstra_result, path_arg, legs, shown>>

queryVars == <<catalog, objects, sessions, first_result>>

analyticsVars == <<analytics_file, lock, threads, tracked>>

adminVars == <<secrets, session_state, rendered, entered>>

vars == <<plannerVars, queryVars, analyticsVars, adminVars, service>>

----------------------------------------------------------------------------
(* Bounds of the model *)

\* direct callers of find_all_routes pass max_routes in 1..MaxRoutesArg
MaxRoutesArg == 3

\* direct callers of format_route pass paths of at most MaxPathLen locations
MaxPathLen == 4

\* the threads make at most MaxCalls calls of analytics_utils between them
MaxCalls == 3

\* the texts handed to the services have at most MaxTextLen characters or words
MaxTextLen == 3

\* the lists handed to parse_npc_prices have at most MaxEntries entries
MaxEntries == 2

----------------------------------------------------------------------------
(* The static catalog *)

BOAT_ROUTES == <<
    <<"Ab'Dendriel", "Carlin", 80>>,
    <<"Ab'Dendriel", "Edron", 70>>,
    <<"Ab'Dendriel", "Thais", 130>>,
    <<"Ab'Dendriel", "Venore", 90>>,
    <<"Carlin", "Ab'Dendriel", 80>>,
    <<"Carlin", "Thais", 110>>,
    <<"Carlin", "Venore", 130>>,
    <<"Darashia", "Venore", 60>>,
    <<"Edron", "Ab'Dendriel", 70>>,
    <<"Edron", "Carlin", 110>>,
    <<"Edron", "Venore", 40>>,
    <<"Thais", "Ab'Dendriel", 130>>,
    <<"Thais", "Carlin", 110>>,
    <<"Thais", "Venore", 170>>,
    <<"Venore", "Ab'Dendriel", 90>>,
    <<"Venore", "Carlin", 130>>,
    <<"Venore", "Darashia", 60>>,
    <<"Venore", "Edron", 40>>,
    <<"Venore", "Thais", 170>> >>

CARPET_ROUTES == <<
    <<"Edron Carpet", "Femor Hills Carpet", 60>>,
    <<"Edron Carpet", "Darashia Carpet", 40>>,
    <<"Femor Hills Carpet", "Edron Carpet", 60>>,
    <<"Femor Hills Carpet", "Darashia Carpet", 80>>,
    <<"Darashia Carpet", "Edron Carpet", 40>>,
    <<"Darashia Carpet", "Femor Hills Carpet", 80>> >>

ICE_ISLANDS == <<"Folda", "Senja", "Vega">>

CARLIN_TO_ICE_ISLANDS == 20

\* city -> the name of its carpet location
CARPET_CITIES == << <<"Edron", "Edron Carpet">>, <<"Darashia", "Darashia Carpet">>,
                    <<"Femor Hills", "Femor Hills Carpet">> >>

ALL_CITIES == {"Ab'Dendriel", "Carlin", "Darashia", "Edron", "Thais", "Venore",
               "Folda", "Senja", "Vega", "Femor Hills", "Kazordoon"}

\* the placeholder entry of the two select boxes of the page
SelectPlaceholder == "Select city..."

\* nearby_cities: pairs joined by free walking connections both ways
nearby_cities == << <<"Femor Hills", "Carlin">>, <<"Femor Hills", "Kazordoon">>,
                    <<"Carlin", "Kazordoon">> >>

\* the cities build_graph links to their "<city> Carpet" for free
CarpetAccessCities == <<"Edron", "Darashia">>

\* f"{city} Carpet"
CarpetOf(city) ==
    CASE city = "Edron" -> "Edron Carpet"
      [] city = "Darashia" -> "Darashia Carpet"
      [] city = "Femor Hills" -> "Femor Hills Carpet"

----------------------------------------------------------------------------
(* Location names and Python's ordering of them *)

\* every name in str order (code points): the order heapq compares them in
NameOrder == <<"A", "Ab'Dendriel", "B", "C", "Carlin", "D", "Darashia",
               "Darashia Carpet", "Edron", "Edron Carpet", "Femor Hills",
               "Femor Hills Carpet", "Folda", "Kazordoon", "Senja", "Thais",
               "Vega", "Venore">>

Locations == {NameOrder[i] : i \in 1..Len(NameOrder)}

RankOf == [s \in Locations |-> CHOOSE i \in 1..Len(NameOrder) : NameOrder[i] = s]

\* str < str
NameLess(a, b) == RankOf[a] < RankOf[b]

\* "Carpet" in city
NameContainsCarpet(city) ==
    city \in {"Darashia Carpet", "Edron Carpet", "Femor Hills Carpet"}

\* list < list: first differing element decides, else the shorter is smaller
RECURSIVE PathLess(_, _)
PathLess(p, q) ==
    IF p = <<>> THEN q # <<>>
    ELSE IF q = <<>> THEN FALSE
    ELSE IF Head(p) = Head(q) THEN PathLess(Tail(p), Tail(q))
    ELSE NameLess(Head(p), Head(q))

\* mutant of RecordLess: the cost is left out of the comparison
RecordLessIgnoringCost(r, s) ==
    \/ NameLess(r.current, s.current)
    \/ r.current = s.current /\ PathLess(r.path, s.path)

\* tuple < tuple on (cost, current, path, visited); with equal paths the
\* visited sets are equal and frozenset < frozenset is False
RecordLess(r, s) ==
    \/ r.cost < s.cost
    \/ r.cost = s.cost /\ NameLess(r.current, s.current)
    \/ r.cost = s.cost /\ r.current = s.current /\ PathLess(r.path, s.path)

----------------------------------------------------------------------------
(* build_graph *)

EmptyGraph == [x \in {} |-> <<>>]

\* if k not in graph: graph[k] = []
EnsureKey(g, k) == IF k \in DOMAIN g THEN g ELSE g @@ (k :> <<>>)

\* graph[from].append((to, cost)), creating the list first when absent
AddEdge(g, from, to, cost) ==
    LET keyed == EnsureKey(g, from)
    IN  [keyed EXCEPT ![from] = Append(@, <<to, cost>>)]

\* for (from_city, to_city), cost in rs: AddEdge(graph, from_city, to_city, cost);
\* every key keeps its list and gets, in the order of rs, the connections
\* rs lists from it
AddRoutes(g, rs) ==
    LET FromHere(k) == SelectSeq(rs, LAMBDA r : r[1] = k)
        Added(k) == [j \in 1..Len(FromHere(k)) |-> <<FromHere(k)[j][2], FromHere(k)[j][3]>>]
    IN  [k \in DOMAIN g \cup {rs[i][1] : i \in 1..Len(rs)} |->
            (IF k \in DOMAIN g THEN g[k] ELSE <<>>) \o Added(k)]

\* mutant of AddIceIslands: the return to Carlin costs as much as the way out
RECURSIVE AddIceIslandsPaidReturn(_, _)
AddIceIslandsPaidReturn(g, islands) ==
    IF islands = <<>> THEN g
    ELSE LET island == Head(islands)
             outward == AddEdge(g, "Carlin", island, CARLIN_TO_ICE_ISLANDS)
             withReturn == AddEdge(outward, island, "Carlin", CARLIN_TO_ICE_ISLANDS)
         IN  AddIceIslandsPaidReturn(withReturn, Tail(islands))

RECURSIVE AddIceIslands(_, _)
AddIceIslands(g, islands) ==
    IF islands = <<>> THEN g
    ELSE LET island == Head(islands)
             outward == AddEdge(g, "Carlin", island, CARLIN_TO_ICE_ISLANDS)
             withReturn == AddEdge(outward, island, "Carlin", 0)
         IN  AddIceIslands(withReturn, Tail(islands))

RECURSIVE AddNearby(_, _)
AddNearby(g, pairs) ==
    IF pairs = <<>> THEN g
    ELSE LET city1 == Head(pairs)[1]
             city2 == Head(pairs)[2]
             forth == AddEdge(EnsureKey(EnsureKey(g, city1), city2), city1, city2, 0)
             back == AddEdge(forth, city2, city1, 0)
         IN  AddNearby(back, Tail(pairs))

RECURSIVE AddCarpetAccess(_, _)
AddCarpetAccess(g, cities) ==
    IF cities = <<>> THEN g
    ELSE LET city == Head(cities)
             carpet == CarpetOf(city)
             toCarpet == AddEdge(EnsureKey(EnsureKey(g, city), carpet), city, carpet, 0)
             fromCarpet == AddEdge(toCarpet, carpet, city, 0)
         IN  AddCarpetAccess(fromCarpet, Tail(cities))

\* the body of `if include_carpets:` with the table of carpet routes it reads
AddCarpetRoutes(g, carpet_routes) ==
    LET flights == AddRoutes(g, carpet_routes)
        access == AddCarpetAccess(flights, CarpetAccessCities)
        femorKeys == EnsureKey(EnsureKey(access, "Femor Hills Carpet"), "Carlin")
        carlinToFemor == AddEdge(femorKeys, "Carlin", "Femor Hills Carpet", 0)
    IN  AddEdge(carlinToFemor, "Femor Hills Carpet", "Carlin", 0)

AddCarpets(g) == AddCarpetRoutes(g, CARPET_ROUTES)

\* mutant of build_graph: the carpet routes are added whatever the flag
build_graph_always_carpets(include_carpets) ==
    LET boats == AddRoutes(EmptyGraph, BOAT_ROUTES)
        ice == AddIceIslands(EnsureKey(boats, "Carlin"), ICE_ISLANDS)
        walking == AddNearby(ice, nearby_cities)
    IN  AddCarpets(walking)

build_graph(include_carpets) ==
    LET boats == AddRoutes(EmptyGraph, BOAT_ROUTES)
        ice == AddIceIslands(EnsureKey(boats, "Carlin"), ICE_ISLANDS)
        walking == AddNearby(ice, nearby_cities)
    IN  IF include_carpets THEN AddCarpets(walking) ELSE walking

\* the two graphs build_graph can return
GraphCarpets == build_graph(TRUE)
GraphNoCarpets == build_graph(FALSE)

\* graph = build_graph(include_carpets)
BuiltGraph(include_carpets) == IF include_carpets THEN GraphCarpets ELSE GraphNoCarpets

----------------------------------------------------------------------------
(* Graphs handed to find_all_routes by callers other than the page:        *)
(* the two built graphs and the small networks of the planner's scenarios  *)

\* A->B 10, B->C 10, A->C 25: a direct connection pricier than two legs
GraphTriangle == AddRoutes(EmptyGraph, << <<"A", "B", 10>>, <<"B", "C", 10>>, <<"A", "C", 25>> >>)

\* A->B 15 with a free return B->A
GraphFreeReturn == AddRoutes(EmptyGraph, << <<"A", "B", 15>>, <<"B", "A", 0>> >>)

\* two components: A<->B and C<->D
GraphDisconnected == AddRoutes(EmptyGraph, << <<"A", "B", 10>>, <<"B", "A", 10>>,
                                              <<"C", "D", 5>>, <<"D", "C", 5>> >>)

\* exactly two two-leg paths from A to D and no direct connection
GraphDiamond == AddRoutes(EmptyGraph, << <<"A", "B", 10>>, <<"A", "C", 10>>,
                                         <<"B", "D", 10>>, <<"C", "D", 15>> >>)

\* the connection A -> B listed twice, on one of two two-leg paths from A to D
GraphDuplicateEdge == AddRoutes(EmptyGraph, << <<"A", "B", 10>>, <<"A", "B", 10>>,
                                               <<"B", "D", 5>>, <<"A", "C", 10>>,
                                               <<"C", "D", 10>> >>)

\* Darashia -> Edron by boat and three ways over the two cities' carpets
GraphCarpetHubs == AddRoutes(EmptyGraph, << <<"Darashia", "Edron", 50>>,
                                           <<"Darashia", "Darashia Carpet", 0>>,
                                           <<"Darashia Carpet", "Edron", 45>>,
                                           <<"Darashia Carpet", "Edron Carpet", 40>>,
                                           <<"Edron Carpet", "Edron", 0>> >>)

ScenarioGraphs == {GraphTriangle, GraphFreeReturn, GraphDisconnected, GraphDiamond,
                   GraphDuplicateEdge, GraphCarpetHubs}

BuiltGraphs == {GraphCarpets, GraphNoCarpets}

\* every location a graph names, as a key or as a neighbor
GraphLocations(g) ==
    DOMAIN g \cup UNION {{g[k][i][1] : i \in 1..Len(g[k])} : k \in DOMAIN g}

\* a name that is no location of g
UnknownLocation(g) == IF "Edron Carpet" \in GraphLocations(g) THEN "A" ELSE "Edron Carpet"

\* the starts from which direct callers ask for the unknown location: two
\* cities of a built graph, every location of a scenario graph
UnknownEndStarts(g) == IF g \in BuiltGraphs THEN {"Carlin", "Darashia"} ELSE GraphLocations(g)

\* the (start, end) pairs direct callers pass with g: every pair of its
\* locations, the unknown location as start, and the unknown location as end
QueryPairs(g) ==
    (GraphLocations(g) \X GraphLocations(g))
    \cup ({UnknownLocation(g)} \X (GraphLocations(g) \cup {UnknownLocation(g)}))
    \cup (UnknownEndStarts(g) \X {UnknownLocation(g)})

\* the (graph, start, end) triples of direct calls
DirectQueries ==
    UNION {{<<g, p[1], p[2]>> : p \in QueryPairs(g)} : g \in BuiltGraphs \cup ScenarioGraphs}

----------------------------------------------------------------------------
(* find_all_routes: the search *)

None == "None"

Record(cost, current, path, visited) ==
    [cost |-> cost, current |-> current, path |-> path, visited |-> visited]

\* the place of r in the list q of records kept in heappop order: behind
\* every record that is not greater than r (binary search in lo..hi)
RECURSIVE InsertPosition(_, _, _, _)
InsertPosition(q, r, lo, hi) ==
    IF lo > hi THEN lo
    ELSE IF RecordLess(r, q[(lo + hi) \div 2])
         THEN InsertPosition(q, r, lo, ((lo + hi) \div 2) - 1)
         ELSE InsertPosition(q, r, ((lo + hi) \div 2) + 1, hi)

\* heapq.heappush(pq, r): the heap is kept as the list of its records in the
\* order heappop returns them (least first; RecordLess is total on distinct
\* records, and an equal record goes behind its equals)
HeapPush(q, r) ==
    LET before == InsertPosition(q, r, 1, Len(q)) - 1
    IN  SubSeq(q, 1, before) \o <<r>> \o SubSeq(q, before + 1, Len(q))

\* the record heapq.heappop(pq) returns, and the heap it leaves
HeapTop(q) == Head(q)
HeapPop(q) == Tail(q)

\* mutant of PushNeighbors: the visited test is left out
RECURSIVE PushNeighborsRevisiting(_, _, _)
PushNeighborsRevisiting(q, rec, edges) ==
    IF edges = <<>> THEN q
    ELSE LET neighbor == Head(edges)[1]
             edge_cost == Head(edges)[2]
         IN  PushNeighborsRevisiting(HeapPush(q, Record(rec.cost + edge_cost, neighbor,
                                                        Append(rec.path, neighbor),
                                                        rec.visited \cup {neighbor})),
                                     rec, Tail(edges))

\* for neighbor, edge_cost in graph[current]: push unless visited
RECURSIVE PushNeighbors(_, _, _)
PushNeighbors(q, rec, edges) ==
    IF edges = <<>> THEN q
    ELSE LET neighbor == Head(edges)[1]
             edge_cost == Head(edges)[2]
         IN  PushNeighbors(IF neighbor \notin rec.visited
                           THEN HeapPush(q, Record(rec.cost + edge_cost, neighbor,
                                                   Append(rec.path, neighbor),
                                                   rec.visited \cup {neighbor}))
                           ELSE q,
                           rec, Tail(edges))

\* mutant of LoopCondition: the loop stops with one record left
LoopConditionOffByOne(q, found, limit) == Len(q) > 1 /\ Len(found) < limit

\* while pq and len(found_routes) < max_routes
LoopCondition(q, found, limit) == q # <<>> /\ Len(found) < limit

\* mutant of IsNewSignature: every popped route counts as new
IsNewSignatureAlways(signature, signatures) == TRUE

\* signature not in route_signatures
IsNewSignature(signature, signatures) == signature \notin signatures

----------------------------------------------------------------------------
(* find_all_routes: sorting and the post-filter *)

\* found_routes.sort(key=lambda x: x[0]): a stable sort by cost
SortByCost(rs) ==
    LET Place(i) == 1 + Cardinality({j \in 1..Len(rs) :
                        rs[j][1] < rs[i][1] \/ (rs[j][1] = rs[i][1] /\ j < i)})
    IN  [k \in 1..Len(rs) |-> rs[CHOOSE i \in 1..Len(rs) : Place(i) = k]]

\* the Edron/Darashia <-> their Carpet transitions
IsCityCarpetTransition(from_city, to_city) ==
    \/ from_city = "Edron" /\ to_city = "Edron Carpet"
    \/ from_city = "Edron Carpet" /\ to_city = "Edron"
    \/ from_city = "Darashia" /\ to_city = "Darashia Carpet"
    \/ from_city = "Darashia Carpet" /\ to_city = "Darashia"

RealSteps(path) ==
    Cardinality({i \in 1..(Len(path) - 1) : ~IsCityCarpetTransition(path[i], path[i + 1])})

IsDirect(path) == RealSteps(path) = 1

RouteIsDirect(r) == IsDirect(r[2])

\* the routes appended to direct_routes, in the order of found_routes
SelectDirect(rs) == SelectSeq(rs, RouteIsDirect)

\* any("Carpet" in city for city in path)
UsesCarpet(path) == \E i \in 1..Len(path) : NameContainsCarpet(path[i])

\* mutant of Prefix: the whole list
PrefixAll(rs, n) == rs

\* rs[:n]
Prefix(rs, n) == SubSeq(rs, 1, IF Len(rs) < n THEN Len(rs) ELSE n)

\* mutant of FirstAlternative: the second cheapest route, whatever it uses
FirstAlternativeAny(sorted, cheapest_uses_carpet) == <<sorted[2]>>

\* the first route after the cheapest whose carpet use differs from the
\* cheapest's (a list of that one route), or nothing
FirstAlternative(sorted, cheapest_uses_carpet) ==
    LET differing == {i \in 2..Len(sorted) : UsesCarpet(sorted[i][2]) # cheapest_uses_carpet}
    IN  IF differing = {} THEN <<>>
        ELSE <<sorted[CHOOSE i \in differing : \A j \in differing : i <= j]>>

\* mutant of PostFilter: direct routes get no preference
PostFilterNoDirectPreference(sorted) ==
    IF Len(sorted) <= 2 THEN sorted
    ELSE <<sorted[1]>> \o FirstAlternative(sorted, UsesCarpet(sorted[1][2]))

\* what find_all_routes returns for the sorted found_routes
PostFilter(sorted) ==
    LET direct_routes == SelectDirect(sorted)
    IN  IF direct_routes # <<>> THEN Prefix(direct_routes, 2)
        ELSE IF Len(sorted) <= 2 THEN sorted
        ELSE <<sorted[1]>> \o FirstAlternative(sorted, UsesCarpet(sorted[1][2]))

----------------------------------------------------------------------------
(* format_route *)

\* mutant of IsSkippedTransition: only the way from the city to its carpet
IsSkippedTransitionOneWay(from_city, to_city) ==
    \/ from_city = "Edron" /\ to_city = "Edron Carpet"
    \/ from_city = "Darashia" /\ to_city = "Darashia Carpet"

\* the transitions format_route leaves out: its own copy of the test
IsSkippedTransition(from_city, to_city) ==
    \/ from_city = "Edron" /\ to_city = "Edron Carpet"
    \/ from_city = "Edron Carpet" /\ to_city = "Edron"
    \/ from_city = "Darashia" /\ to_city = "Darashia Carpet"
    \/ from_city = "Darashia Carpet" /\ to_city = "Darashia"

\* mutant of LegCost: the connection is looked up the wrong way round
LegCostReversed(g, from_city, to_city) ==
    IF to_city \in DOMAIN g /\ \E i \in 1..Len(g[to_city]) : g[to_city][i][1] = from_city
    THEN LET matching == {i \in 1..Len(g[to_city]) : g[to_city][i][1] = from_city}
             first == CHOOSE i \in matching : \A j \in matching : i <= j
         IN  g[to_city][first][2]
    ELSE 0

\* the cost of the first connection from_city -> to_city listed in the graph,
\* 0 when there is none
LegCost(g, from_city, to_city) ==
    IF from_city \in DOMAIN g /\ \E i \in 1..Len(g[from_city]) : g[from_city][i][1] = to_city
    THEN LET matching == {i \in 1..Len(g[from_city]) : g[from_city][i][1] = to_city}
             first == CHOOSE i \in matching : \A j \in matching : i <= j
         IN  g[from_city][first][2]
    ELSE 0

\* CARPET_CITIES.values()
CarpetCityValues == {CARPET_CITIES[i][2] : i \in 1..Len(CARPET_CITIES)}

IceIslandSet == {ICE_ISLANDS[i] : i \in 1..Len(ICE_ISLANDS)}

\* the transport label of a leg
Transport(from_city, to_city, cost) ==
    IF from_city \in CarpetCityValues \/ to_city \in CarpetCityValues
    THEN IF cost = 0 THEN "Walk" ELSE "Carpet"
    ELSE IF from_city = "Carlin" /\ to_city \in IceIslandSet THEN "Boat"
    ELSE IF from_city \in IceIslandSet /\ to_city = "Carlin" THEN "Boat (Free Return)"
    ELSE "Boat"

Leg(g, from_city, to_city) ==
    LET cost == LegCost(g, from_city, to_city)
    IN  [from |-> from_city, to |-> to_city, cost |-> cost,
         transport |-> Transport(from_city, to_city, cost)]

\* format_route(path, graph): one leg per step of the path that is not left
\* out (skip_next stays False throughout, so no other step is left out)
format_route(p, g) ==
    IF Len(p) < 2 THEN <<>>
    ELSE LET kept == SelectSeq([i \in 1..(Len(p) - 1) |-> i],
                               LAMBDA i : ~IsSkippedTransition(p[i], p[i + 1]))
         IN  [k \in 1..Len(kept) |-> Leg(g, p[kept[k]], p[kept[k] + 1])]

\* main(): for (total_cost, path) in all_routes: legs = format_route(path, graph)
ShowRoutes(rs, g) ==
    [i \in 1..Len(rs) |-> [total_cost |-> rs[i][1], legs |-> format_route(rs[i][2], g)]]

----------------------------------------------------------------------------
(* The components at rest: the values their variables hold while another  *)
(* component is the one running                                            *)

\* the module-level tables of Travel_Calculator.py
Catalog == [BOAT_ROUTES |-> BOAT_ROUTES, CARPET_ROUTES |-> CARPET_ROUTES,
            ICE_ISLANDS |-> ICE_ISLANDS, CARPET_CITIES |-> CARPET_CITIES]

\* the two page sessions whose script runs interleave
Sessions == {"s1", "s2"}

\* identities of the dict objects build_graph creates; NoObject: `graph` unbound
ObjectIds == {"o1", "o2"}
NoObject == "o0"

NoObjects == [o \in {} |-> EmptyGraph]

\* the locals of a script run that has not started
IdleSession ==
    [pc |-> "idle", include_carpets |-> FALSE, from_city |-> None, to_city |-> None,
     graph |-> NoObject, pq |-> <<>>, found_routes |-> <<>>, route_signatures |-> {},
     all_routes |-> <<>>, shown |-> <<>>]

NoResult == <<>>

QueriesIdle ==
    /\ catalog = Catalog
    /\ objects = NoObjects
    /\ sessions = [s \in Sessions |-> IdleSession]
    /\ first_result = NoResult

\* the threads of the process that call track_page_view
Threads == {"t1", "t2"}

NoThread == "NoThread"
\* no analytics file; otherwise analytics_file is <<content>>
NoFile == <<>>
\* data not yet bound; otherwise a thread's data is <<value>>
NoData == <<>>

\* a thread outside the functions of analytics_utils
IdleThread ==
    [pc |-> "idle", op |-> "none", page_name |-> None, session_id |-> None, data |-> NoData]

\* the pages whose views are counted
Pages == {"Home", "Weapons"}

\* no call made or returned yet. previous: the page views on file at the
\* start, or at the last reset; views: the views tracked since then, oldest
\* first; before: the file as the thread holding the lock found it
NothingTracked(previous_views, previous_timeline) ==
    [previous |-> previous_views, started |-> 0, calls |-> [p \in Pages |-> 0],
     views |-> previous_timeline, before |-> NoFile]

AnalyticsIdle ==
    /\ analytics_file = NoFile
    /\ lock = NoThread
    /\ threads = [t \in Threads |-> IdleThread]
    /\ tracked = NothingTracked([p \in Pages |-> 0], <<>>)

\* no service function has been called
NoCall == [fn |-> "none", args |-> <<>>, raised |-> FALSE, value |-> <<>>]

\* the browser sessions that open the admin page
Browsers == {"b1", "b2"}

NoSecret == "NoSecret"

\* st.session_state of a new browser session: no key set
EmptySessionState == [k \in {} |-> None]

AdminIdle ==
    /\ secrets = NoSecret
    /\ session_state = [b \in Browsers |-> EmptySessionState]
    /\ rendered = [b \in Browsers |-> "nothing"]
    /\ entered = [b \in Browsers |-> {}]

----------------------------------------------------------------------------
(* The state machine *)

Init ==
    /\ pc = "idle"
    /\ caller = "none"
    /\ graph = EmptyGraph
    /\ start = None
    /\ end = None
    /\ max_routes = 0
    /\ pq = <<>>
    /\ found_routes = <<>>
    /\ route_signatures = {}
    /\ routes = <<>>
    /\ outcome = "none"
    /\ dijkstra_result = <<None, None>>
    /\ path_arg = <<>>
    /\ legs = <<>>
    /\ shown = <<>>
    /\ QueriesIdle
    /\ service = NoCall
    /\ AnalyticsIdle
    /\ AdminIdle

\* entering find_all_routes(g, s, e, mr): the membership test and the seeding
Enter(g, s, e, mr, who) ==
    /\ pc = "idle"
    /\ caller' = who
    /\ graph' = g
    /\ start' = s
    /\ end' = e
    /\ max_routes' = mr
    /\ found_routes' = <<>>
    /\ route_signatures' = {}
    /\ routes' = <<>>
    /\ outcome' = "none"
    /\ dijkstra_result' = <<None, None>>
    /\ UNCHANGED <<path_arg, legs, shown, queryVars, analyticsVars, adminVars, service>>
    /\ IF s \notin DOMAIN g
       THEN /\ pq' = <<>>
            /\ pc' = IF who = "direct" THEN "done" ELSE "returned"
       ELSE /\ pq' = <<Record(0, s, <<s>>, {s})>>
            /\ pc' = "loop"

\* main(): the two select boxes and the checkbox, up to the call of the search
MainQuery ==
    \E from_city \in ALL_CITIES \cup {SelectPlaceholder},
       to_city \in ALL_CITIES \cup {SelectPlaceholder},
       include_carpets \in BOOLEAN :
        IF from_city = SelectPlaceholder \/ to_city = SelectPlaceholder
        THEN /\ pc = "idle"
             /\ pc' = "done"
             /\ caller' = "main"
             /\ outcome' = "none"
             /\ graph' = EmptyGraph /\ start' = None /\ end' = None /\ max_routes' = 0
             /\ pq' = <<>> /\ found_routes' = <<>> /\ route_signatures' = {}
             /\ routes' = <<>> /\ dijkstra_result' = <<None, None>>
             /\ UNCHANGED <<path_arg, legs, shown, queryVars, analyticsVars, adminVars, service>>
        ELSE IF from_city = to_city
        THEN /\ pc = "idle"
             /\ pc' = "done"
             /\ caller' = "main"
             /\ outcome' = "same_city_warning"
             /\ graph' = EmptyGraph /\ start' = from_city /\ end' = to_city /\ max_routes' = 0
             /\ pq' = <<>> /\ found_routes' = <<>> /\ route_signatures' = {}
             /\ routes' = <<>> /\ dijkstra_result' = <<None, None>>
             /\ UNCHANGED <<path_arg, legs, shown, queryVars, analyticsVars, adminVars, service>>
        ELSE Enter(BuiltGraph(include_carpets), from_city, to_city, 10, "main")

\* dijkstra(graph, start, end): find_all_routes(..., max_routes=1)
DijkstraCall ==
    \E q \in DirectQueries : Enter(q[1], q[2], q[3], 1, "dijkstra")

\* find_all_routes called directly
FindAllRoutesCall ==
    \E q \in DirectQueries, mr \in 1..MaxRoutesArg : Enter(q[1], q[2], q[3], mr, "direct")

\* one iteration of the while loop
LoopStep ==
    /\ pc = "loop"
    /\ LoopCondition(pq, found_routes, max_routes)
    /\ LET popped == HeapTop(pq)
           rest == HeapPop(pq)
       IN  IF popped.current = end
           THEN /\ pq' = rest
                /\ IF IsNewSignature(popped.path, route_signatures)
                   THEN /\ route_signatures' = route_signatures \cup {popped.path}
                        /\ found_routes' = Append(found_routes, <<popped.cost, popped.path>>)
                   ELSE UNCHANGED <<route_signatures, found_routes>>
           ELSE /\ pq' = IF popped.current \in DOMAIN graph
                         THEN PushNeighbors(rest, popped, graph[popped.current])
                         ELSE rest
                /\ UNCHANGED <<route_signatures, found_routes>>
    /\ UNCHANGED <<pc, caller, graph, start, end, max_routes, routes, outcome, dijkstra_result>>
    /\ UNCHANGED <<path_arg, legs, shown, queryVars, analyticsVars, adminVars, service>>

\* leaving the loop: the sort, the post-filter and the return
SortAndFilter ==
    /\ pc = "loop"
    /\ ~LoopCondition(pq, found_routes, max_routes)
    /\ found_routes' = SortByCost(found_routes)
    /\ routes' = PostFilter(SortByCost(found_routes))
    /\ pc' = IF caller = "direct" THEN "done" ELSE "returned"
    /\ UNCHANGED <<caller, graph, start, end, max_routes, pq, route_signatures,
                   outcome, dijkstra_result>>
    /\ UNCHANGED <<path_arg, legs, shown, queryVars, analyticsVars, adminVars, service>>

\* main(): what the page shows for the returned list: every route with its
\* legs, or the error
MainShow ==
    /\ pc = "returned" /\ caller = "main"
    /\ outcome' = IF routes # <<>> THEN "routes_shown" ELSE "no_route_error"
    /\ shown' = ShowRoutes(routes, graph)
    /\ pc' = "done"
    /\ UNCHANGED <<caller, graph, start, end, max_routes, pq, found_routes,
                   route_signatures, routes, dijkstra_result>>
    /\ UNCHANGED <<path_arg, legs, queryVars, analyticsVars, adminVars, service>>

\* routes[0] if routes else (None, None)
DijkstraResult(rs) == IF rs # <<>> THEN rs[1] ELSE <<None, None>>

\* dijkstra(): the return
DijkstraReturn ==
    /\ pc = "returned" /\ caller = "dijkstra"
    /\ dijkstra_result' = DijkstraResult(routes)
    /\ pc' = "done"
    /\ UNCHANGED <<caller, graph, start, end, max_routes, pq, found_routes,
                   route_signatures, routes, outcome>>
    /\ UNCHANGED <<path_arg, legs, shown, queryVars, analyticsVars, adminVars, service>>

\* the script ends; the next interaction runs it afresh
Rerun ==
    /\ pc = "done"
    /\ pc' = "idle"
    /\ caller' = "none"
    /\ graph' = EmptyGraph
    /\ start' = None
    /\ end' = None
    /\ max_routes' = 0
    /\ pq' = <<>>
    /\ found_routes' = <<>>
    /\ route_signatures' = {}
    /\ routes' = <<>>
    /\ outcome' = "none"
    /\ dijkstra_result' = <<None, None>>
    /\ path_arg' = <<>>
    /\ legs' = <<>>
    /\ shown' = <<>>
    /\ UNCHANGED <<queryVars, analyticsVars, adminVars, service>>

Next ==
    \/ MainQuery
    \/ DijkstraCall
    \/ FindAllRoutesCall
    \/ LoopStep
    \/ SortAndFilter
    \/ MainShow
    \/ DijkstraReturn
    \/ Rerun

Spec == Init /\ [][Next]_vars

----------------------------------------------------------------------------
(* dijkstra alone *)

NextDijkstra ==
    \/ DijkstraCall
    \/ LoopStep
    \/ SortAndFilter
    \/ DijkstraReturn
    \/ Rerun

SpecDijkstra == Init /\ [][NextDijkstra]_vars

----------------------------------------------------------------------------
(* The search as a running program: the interpreter goes on executing the   *)
(* while loop and the statements after it, so an enabled iteration and an   *)
(* enabled return are eventually taken.                                     *)

\* find_all_routes called directly on one of the small networks
ScenarioCall ==
    \E q \in {d \in DirectQueries : d[1] \in ScenarioGraphs}, mr \in 1..MaxRoutesArg :
        Enter(q[1], q[2], q[3], mr, "direct")

NextTermination ==
    \/ ScenarioCall
    \/ LoopStep
    \/ SortAndFilter
    \/ Rerun

SpecTermination ==
    Init /\ [][NextTermination]_vars /\ WF_vars(LoopStep) /\ WF_vars(SortAndFilter)

----------------------------------------------------------------------------
(* format_route alone *)

\* the paths of n locations that follow the connections of g
RECURSIVE Walks(_, _)
Walks(g, n) ==
    IF n = 1 THEN {<<v>> : v \in GraphLocations(g)}
    ELSE LET shorter == {w \in Walks(g, n - 1) : w[Len(w)] \in DOMAIN g}
         IN  UNION {{Append(w, g[w[Len(w)]][i][1]) : i \in 1..Len(g[w[Len(w)]])} : w \in shorter}

\* the paths direct callers pass with g: the empty path and every path of
\* 1..MaxPathLen locations along its connections
PathsOver(g) == {<<>>} \cup UNION {Walks(g, n) : n \in 1..MaxPathLen}

\* the (graph, path) pairs of direct calls of format_route
FormatInputs ==
    UNION {{<<g, p>> : p \in PathsOver(g)} : g \in BuiltGraphs \cup {GraphCarpetHubs}}

\* format_route called directly
FormatRouteCall ==
    \E fi \in FormatInputs :
        /\ pc = "idle"
        /\ pc' = "done"
        /\ caller' = "direct"
        /\ graph' = fi[1]
        /\ path_arg' = fi[2]
        /\ legs' = format_route(fi[2], fi[1])
        /\ UNCHANGED <<start, end, max_routes, pq, found_routes, route_signatures,
                       routes, outcome, dijkstra_result, shown>>
        /\ UNCHANGED <<queryVars, analyticsVars, adminVars, service>>

NextFormat ==
    \/ FormatRouteCall
    \/ Rerun

SpecFormat == Init /\ [][NextFormat]_vars

----------------------------------------------------------------------------
(* Two page sessions of one process: the steps of their script runs        *)
(* interleave. Each run is main()'s query: build_graph, find_all_routes,   *)
(* format_route for every returned route.                                  *)

\* the queries the sessions submit: (include_carpets, from_city, to_city)
SessionQueries ==
    {<<c, q[1], q[2]>> : c \in BOOLEAN, q \in {<<"Darashia", "Carlin">>, <<"Folda", "Carlin">>}}

QueryOf(sess) == <<sess.include_carpets, sess.from_city, sess.to_city>>

\* mutant of NewObject: every call uses the one module-level dict
SharedObject(objs) == "o1"

\* graph = {}: the identity of the dict a call of build_graph creates
NewObject(objs) == CHOOSE o \in ObjectIds : o \notin DOMAIN objs

\* mutant of GraphOf: a module-level name `graph`, bound to a dict in existence
GlobalGraph(objs, sess) == objs[CHOOSE o \in DOMAIN objs : TRUE]

\* the dict the local name `graph` of a run is bound to
GraphOf(objs, sess) == objs[sess.graph]

\* the dicts left once the run of session s has ended: its graph is dropped
\* unless another run refers to it
ReleaseObject(objs, s) ==
    IF \E u \in Sessions \ {s} : sessions[u].graph = sessions[s].graph
    THEN objs
    ELSE [o \in DOMAIN objs \ {sessions[s].graph} |-> objs[o]]

\* session s moves to new_locals
SessionStep(s, new_locals) == sessions' = [sessions EXCEPT ![s] = new_locals]

\* main() up to the first statement of build_graph: graph = {}
SessionQuery(s) ==
    \E q \in SessionQueries :
        /\ sessions[s].pc = "idle"
        /\ LET o == NewObject(objects)
           IN  /\ objects' = [x \in DOMAIN objects \cup {o} |->
                                 IF x = o THEN EmptyGraph ELSE objects[x]]
               /\ SessionStep(s, [IdleSession EXCEPT !.pc = "boats",
                                                     !.include_carpets = q[1],
                                                     !.from_city = q[2],
                                                     !.to_city = q[3],
                                                     !.graph = o])
        /\ UNCHANGED <<catalog, first_result, plannerVars, analyticsVars, adminVars, service>>

\* build_graph: the loop over BOAT_ROUTES
BuildBoats(s) ==
    /\ sessions[s].pc = "boats"
    /\ objects' = [objects EXCEPT ![sessions[s].graph] = AddRoutes(@, catalog.BOAT_ROUTES)]
    /\ SessionStep(s, [sessions[s] EXCEPT !.pc = "ice"])
    /\ UNCHANGED <<catalog, first_result, plannerVars, analyticsVars, adminVars, service>>

\* build_graph: the ice islands
BuildIceIslands(s) ==
    /\ sessions[s].pc = "ice"
    /\ objects' = [objects EXCEPT ![sessions[s].graph] =
                       AddIceIslands(EnsureKey(@, "Carlin"), catalog.ICE_ISLANDS)]
    /\ SessionStep(s, [sessions[s] EXCEPT !.pc = "nearby"])
    /\ UNCHANGED <<catalog, first_result, plannerVars, analyticsVars, adminVars, service>>

\* build_graph: the walking connections, and the test of include_carpets
BuildNearby(s) ==
    /\ sessions[s].pc = "nearby"
    /\ objects' = [objects EXCEPT ![sessions[s].graph] = AddNearby(@, nearby_cities)]
    /\ SessionStep(s, [sessions[s] EXCEPT
                           !.pc = IF sessions[s].include_carpets THEN "carpets" ELSE "built"])
    /\ UNCHANGED <<catalog, first_result, plannerVars, analyticsVars, adminVars, service>>

\* build_graph: the carpet routes
BuildCarpets(s) ==
    /\ sessions[s].pc = "carpets"
    /\ objects' = [objects EXCEPT ![sessions[s].graph] =
                       AddCarpetRoutes(@, catalog.CARPET_ROUTES)]
    /\ SessionStep(s, [sessions[s] EXCEPT !.pc = "built"])
    /\ UNCHANGED <<catalog, first_result, plannerVars, analyticsVars, adminVars, service>>

\* main(): find_all_routes(graph, from_city, to_city, max_routes=10), up to the loop
SearchEnter(s) ==
    /\ sessions[s].pc = "built"
    /\ IF sessions[s].from_city \notin DOMAIN GraphOf(objects, sessions[s])
       THEN SessionStep(s, [sessions[s] EXCEPT !.pc = "show"])
       ELSE SessionStep(s, [sessions[s] EXCEPT
                               !.pc = "loop",
                               !.pq = <<Record(0, sessions[s].from_city,
                                               <<sessions[s].from_city>>,
                                               {sessions[s].from_city})>>])
    /\ UNCHANGED <<catalog, objects, first_result, plannerVars, analyticsVars, adminVars, service>>

\* one iteration of the while loop of the search of session s
SearchStep(s) ==
    /\ sessions[s].pc = "loop"
    /\ LoopCondition(sessions[s].pq, sessions[s].found_routes, 10)
    /\ LET popped == HeapTop(sessions[s].pq)
           rest == HeapPop(sessions[s].pq)
           g == GraphOf(objects, sessions[s])
       IN  IF popped.current = sessions[s].to_city
           THEN IF IsNewSignature(popped.path, sessions[s].route_signatures)
                THEN SessionStep(s, [sessions[s] EXCEPT
                        !.pq = rest,
                        !.route_signatures = @ \cup {popped.path},
                        !.found_routes = Append(@, <<popped.cost, popped.path>>)])
                ELSE SessionStep(s, [sessions[s] EXCEPT !.pq = rest])
           ELSE SessionStep(s, [sessions[s] EXCEPT
                        !.pq = IF popped.current \in DOMAIN g
                               THEN PushNeighbors(rest, popped, g[popped.current])
                               ELSE rest])
    /\ UNCHANGED <<catalog, objects, first_result, plannerVars, analyticsVars, adminVars, service>>

\* the search of session s leaves the loop: the sort, the post-filter, the return
SearchReturn(s) ==
    /\ sessions[s].pc = "loop"
    /\ ~LoopCondition(sessions[s].pq, sessions[s].found_routes, 10)
    /\ SessionStep(s, [sessions[s] EXCEPT
                           !.pc = "show",
                           !.found_routes = SortByCost(@),
                           !.all_routes = PostFilter(SortByCost(sessions[s].found_routes))])
    /\ UNCHANGED <<catalog, objects, first_result, plannerVars, analyticsVars, adminVars, service>>

\* main(): the returned routes are formatted and shown; the first run to
\* get here is the one remembered, with whether it ran alone (no other
\* session has begun a run: an earlier run would be the one remembered)
SessionShow(s) ==
    /\ sessions[s].pc = "show"
    /\ LET formatted == ShowRoutes(sessions[s].all_routes, GraphOf(objects, sessions[s]))
       IN  /\ SessionStep(s, [sessions[s] EXCEPT !.pc = "done", !.shown = formatted])
           /\ first_result' =
                  IF first_result = NoResult
                  THEN <<[query |-> QueryOf(sessions[s]), by |-> s,
                          alone |-> \A u \in Sessions \ {s} : sessions[u].pc = "idle",
                          all_routes |-> sessions[s].all_routes, shown |-> formatted]>>
                  ELSE first_result
    /\ UNCHANGED <<catalog, objects, plannerVars, analyticsVars, adminVars, service>>

\* the script run of session s ends: its locals are gone
SessionRerun(s) ==
    /\ sessions[s].pc = "done"
    /\ objects' = ReleaseObject(objects, s)
    /\ SessionStep(s, IdleSession)
    /\ UNCHANGED <<catalog, first_result, plannerVars, analyticsVars, adminVars, service>>

NextQueries ==
    \E s \in Sessions :
        \/ SessionQuery(s)
        \/ BuildBoats(s)
        \/ BuildIceIslands(s)
        \/ BuildNearby(s)
        \/ BuildCarpets(s)
        \/ SearchEnter(s)
        \/ SearchStep(s)
        \/ SearchReturn(s)
        \/ SessionShow(s)
        \/ SessionRerun(s)

SpecQueries == Init /\ [][NextQueries]_vars

----------------------------------------------------------------------------
(* One visitor comparing: a query for two different cities, then the same   *)
(* two cities with the carpet checkbox toggled.                             *)

\* main() up to graph = {}: any two different cities on the first run,
\* afterwards the cities of the first run with the other value of the checkbox
ToggleQuery(s) ==
    \E from_city \in ALL_CITIES, to_city \in ALL_CITIES, include_carpets \in BOOLEAN :
        /\ from_city # to_city
        /\ sessions[s].pc = "idle"
        /\ \/ first_result = NoResult
           \/ /\ first_result # NoResult
              /\ first_result[1].query = <<~include_carpets, from_city, to_city>>
        /\ LET o == NewObject(objects)
           IN  /\ objects' = [x \in DOMAIN objects \cup {o} |->
                                 IF x = o THEN EmptyGraph ELSE objects[x]]
               /\ SessionStep(s, [IdleSession EXCEPT !.pc = "boats",
                                                     !.include_carpets = include_carpets,
                                                     !.from_city = from_city,
                                                     !.to_city = to_city,
                                                     !.graph = o])
        /\ UNCHANGED <<catalog, first_result, plannerVars, analyticsVars, adminVars, service>>

NextToggle ==
    \/ ToggleQuery("s1")
    \/ BuildBoats("s1")
    \/ BuildIceIslands("s1")
    \/ BuildNearby("s1")
    \/ BuildCarpets("s1")
    \/ SearchEnter("s1")
    \/ SearchStep("s1")
    \/ SearchReturn("s1")
    \/ SessionShow("s1")
    \/ SessionRerun("s1")

SpecToggle == Init /\ [][NextToggle]_vars

----------------------------------------------------------------------------
(* The page-view counter (src/analytics_utils.py): threads of one process  *)
(* call track_page_view. The file holds what json.dump wrote; its keys are *)
(* strings and its values numbers, lists and dicts of strings, which       *)
(* json.load gives back as written. The timestamps stored with sessions    *)
(* and timeline entries are left out: track_page_view reads none of them.  *)

\* data["timeline"][-1000:]
TimelineKeep == 1000

\* the values of session_id the callers pass
SessionIds == {None, "sid1"}

EmptyDict == [k \in {} |-> None]

\* d[k] = v
DictSet(d, k, v) == [x \in DOMAIN d \cup {k} |-> IF x = k THEN v ELSE d[x]]

\* d.get(k, default)
DictGet(d, k, default) == IF k \in DOMAIN d THEN d[k] ELSE default

\* the structure _load_analytics_data returns when there is no file
EmptyData == [page_views |-> EmptyDict, sessions |-> EmptyDict, timeline |-> <<>>]

\* a file json.load rejects: empty as open(..., 'w') leaves it, written in
\* part, or corrupt
Unparseable == <<[json_error |-> TRUE]>>

\* what the file holds before the first call: absent, corrupt, an empty JSON
\* object, the record of two earlier views of Home by session sid0, or a
\* timeline one entry short of the length kept
PreviousFiles ==
    LET earlier == [page |-> "Home", session_id |-> "sid0"]
        visits == DictSet(EmptyDict, "sid0", [pages_visited |-> <<"Home">>])
    IN  {NoFile,
         Unparseable,
         <<EmptyDict>>,
         <<[page_views |-> DictSet(EmptyDict, "Home", 2), sessions |-> visits,
            timeline |-> <<earlier, earlier>>]>>,
         <<[page_views |-> DictSet(EmptyDict, "Home", TimelineKeep - 1), sessions |-> visits,
            timeline |-> [i \in 1..(TimelineKeep - 1) |-> earlier]]>>}

\* _load_analytics_data(): the empty structure when there is no file or
\* json.load raises
load_analytics_data(file) ==
    IF file = NoFile \/ file = Unparseable THEN EmptyData ELSE file[1]

\* get_page_views()
get_page_views(file) == DictGet(load_analytics_data(file), "page_views", EmptyDict)

RECURSIVE SumValues(_, _)
SumValues(d, keys) ==
    IF keys = {} THEN 0
    ELSE LET k == CHOOSE x \in keys : TRUE
         IN  d[k] + SumValues(d, keys \ {k})

\* get_total_page_views()
get_total_page_views(file) == SumValues(get_page_views(file), DOMAIN get_page_views(file))

\* mutant of LastN: the first n entries
FirstN(seq, n) == IF Len(seq) <= n THEN seq ELSE SubSeq(seq, 1, n)

\* seq[-n:]
LastN(seq, n) == IF Len(seq) <= n THEN seq ELSE SubSeq(seq, Len(seq) - n + 1, Len(seq))

\* the three `if ... not in data` of track_page_view
WithStructure(data) ==
    [page_views |-> DictGet(data, "page_views", EmptyDict),
     sessions |-> DictGet(data, "sessions", EmptyDict),
     timeline |-> DictGet(data, "timeline", <<>>)]

\* data["page_views"][page_name] += 1, from 0 when absent
CountView(page_views, page_name) ==
    DictSet(page_views, page_name, DictGet(page_views, page_name, 0) + 1)

\* if session_id: the session's entry with page_name among its pages_visited
TrackSession(known, page_name, session_id) ==
    IF session_id = None THEN known
    ELSE LET entry == DictGet(known, session_id, [pages_visited |-> <<>>])
             seen == {entry.pages_visited[i] : i \in 1..Len(entry.pages_visited)}
         IN  DictSet(known, session_id,
                     [pages_visited |-> IF page_name \in seen THEN entry.pages_visited
                                        ELSE Append(entry.pages_visited, page_name)])

\* track_page_view between the load and the save: the new content of data
Updated(data, page_name, session_id) ==
    LET structured == WithStructure(data)
    IN  [page_views |-> CountView(structured.page_views, page_name),
         sessions |-> TrackSession(structured.sessions, page_name, session_id),
         timeline |-> LastN(Append(structured.timeline,
                                   [page |-> page_name, session_id |-> session_id]),
                            TimelineKeep)]

\* mutant of CanAcquire: the lock is not waited for
CanAcquireAlways(holder) == TRUE

\* with _lock: a thread enters when no thread holds the lock
CanAcquire(holder) == holder = NoThread

InitAnalytics ==
    /\ \E file \in PreviousFiles :
           /\ analytics_file = file
           /\ tracked = NothingTracked([p \in Pages |-> DictGet(get_page_views(file), p, 0)],
                                       DictGet(load_analytics_data(file), "timeline", <<>>))
    /\ lock = NoThread
    /\ threads = [t \in Threads |-> IdleThread]
    /\ pc = "idle" /\ caller = "none" /\ graph = EmptyGraph /\ start = None /\ end = None
    /\ max_routes = 0 /\ pq = <<>> /\ found_routes = <<>> /\ route_signatures = {}
    /\ routes = <<>> /\ outcome = "none" /\ dijkstra_result = <<None, None>>
    /\ path_arg = <<>> /\ legs = <<>> /\ shown = <<>>
    /\ QueriesIdle
    /\ service = NoCall
    /\ AdminIdle

\* thread t calls track_page_view(page_name, session_id)
TrackCall(t) ==
    \E page_name \in Pages, session_id \in SessionIds :
        /\ threads[t].pc = "idle"
        /\ tracked.started < MaxCalls
        /\ threads' = [threads EXCEPT ![t] = [pc |-> "acquire", op |-> "track",
                                              page_name |-> page_name,
                                              session_id |-> session_id, data |-> NoData]]
        /\ tracked' = [tracked EXCEPT !.started = @ + 1]
        /\ UNCHANGED <<analytics_file, lock, plannerVars, queryVars, adminVars, service>>

\* thread t calls reset_analytics(): the data to save is the empty structure
ResetCall(t) ==
    /\ threads[t].pc = "idle"
    /\ tracked.started < MaxCalls
    /\ threads' = [threads EXCEPT ![t] = [IdleThread EXCEPT !.pc = "acquire", !.op = "reset",
                                                            !.data = <<EmptyData>>]]
    /\ tracked' = [tracked EXCEPT !.started = @ + 1]
    /\ UNCHANGED <<analytics_file, lock, plannerVars, queryVars, adminVars, service>>

\* with _lock: of track_page_view and of reset_analytics
TrackAcquire(t) ==
    /\ threads[t].pc = "acquire"
    /\ CanAcquire(lock)
    /\ lock' = t
    /\ threads' = [threads EXCEPT ![t].pc = IF threads[t].op = "reset" THEN "open" ELSE "load"]
    /\ tracked' = [tracked EXCEPT !.before = analytics_file]
    /\ UNCHANGED <<analytics_file, plannerVars, queryVars, adminVars, service>>

\* data = _load_analytics_data()
TrackLoad(t) ==
    /\ threads[t].pc = "load"
    /\ threads' = [threads EXCEPT ![t].pc = "update",
                                  ![t].data = <<load_analytics_data(analytics_file)>>]
    /\ UNCHANGED <<analytics_file, lock, tracked, plannerVars, queryVars, adminVars, service>>

\* the updates of data
TrackUpdate(t) ==
    /\ threads[t].pc = "update"
    /\ threads' = [threads EXCEPT ![t].pc = "open",
                                  ![t].data = <<Updated(@[1], threads[t].page_name,
                                                        threads[t].session_id)>>]
    /\ UNCHANGED <<analytics_file, lock, tracked, plannerVars, queryVars, adminVars, service>>

\* _save_analytics_data(data): open(ANALYTICS_FILE, 'w') leaves an empty file
SaveOpen(t) ==
    /\ threads[t].pc = "open"
    /\ analytics_file' = Unparseable
    /\ threads' = [threads EXCEPT ![t].pc = "dump"]
    /\ UNCHANGED <<lock, tracked, plannerVars, queryVars, adminVars, service>>

\* _save_analytics_data(data): json.dump and the close of the file
SaveDump(t) ==
    /\ threads[t].pc = "dump"
    /\ analytics_file' = threads[t].data
    /\ threads' = [threads EXCEPT ![t].pc = "release"]
    /\ UNCHANGED <<lock, tracked, plannerVars, queryVars, adminVars, service>>

\* _save_analytics_data(data): open or json.dump raises; the exception is
\* printed and the function returns
SaveFails(t) ==
    /\ \/ threads[t].pc = "open"
       \/ threads[t].pc = "dump"
    /\ threads' = [threads EXCEPT ![t].pc = "dropped"]
    /\ UNCHANGED <<analytics_file, lock, tracked, plannerVars, queryVars, adminVars, service>>

\* a reader (get_page_views, get_analytics_summary, get_timeline_data) called
\* by thread t: data = _load_analytics_data(), under no lock
ReaderLoad(t) ==
    /\ threads[t].pc = "idle"
    /\ tracked.started < MaxCalls
    /\ threads' = [threads EXCEPT ![t] = [IdleThread EXCEPT
                                              !.pc = "read", !.op = "read",
                                              !.data = <<load_analytics_data(analytics_file)>>]]
    /\ tracked' = [tracked EXCEPT !.started = @ + 1]
    /\ UNCHANGED <<analytics_file, lock, plannerVars, queryVars, adminVars, service>>

\* the call of thread t returns; the end of the with block of a writer
TrackRelease(t) ==
    /\ threads[t].pc \in {"release", "dropped", "read"}
    /\ lock' = IF threads[t].op = "read" THEN lock ELSE NoThread
    /\ tracked' =
           IF threads[t].pc = "release" /\ threads[t].op = "track"
           THEN [tracked EXCEPT
                    !.calls[threads[t].page_name] = @ + 1,
                    !.views = Append(@, [page |-> threads[t].page_name,
                                         session_id |-> threads[t].session_id])]
           ELSE IF threads[t].pc = "release" /\ threads[t].op = "reset"
           THEN [tracked EXCEPT !.previous = [p \in Pages |-> 0],
                                !.calls = [p \in Pages |-> 0],
                                !.views = <<>>]
           ELSE tracked
    /\ threads' = [threads EXCEPT ![t] = IdleThread]
    /\ UNCHANGED <<analytics_file, plannerVars, queryVars, adminVars, service>>

NextAnalytics ==
    \E t \in Threads :
        \/ TrackCall(t)
        \/ ResetCall(t)
        \/ TrackAcquire(t)
        \/ TrackLoad(t)
        \/ TrackUpdate(t)
        \/ SaveOpen(t)
        \/ SaveDump(t)
        \/ ReaderLoad(t)
        \/ TrackRelease(t)

SpecAnalytics == InitAnalytics /\ [][NextAnalytics]_vars

\* the same with file errors: a save may fail
SpecAnalyticsFaults ==
    InitAnalytics /\ [][NextAnalytics \/ (\E t \in Threads : SaveFails(t))]_vars

----------------------------------------------------------------------------
(* The admin page (pages/Admin_Analytics.py): each browser session has its *)
(* own st.session_state; st.secrets is the deployment's configuration.     *)
(* Streamlit runs a widget's on_change callback and then the page's script *)
(* in the session's own thread, so a submission is one step.               *)

\* the configurations of st.secrets: no admin_password, or one of two
ConfiguredSecrets == {NoSecret, "admin", "other"}

\* what a visitor types into the password input
TypedPasswords == {"admin", "guess"}

\* mutant of PasswordMatches: every password is accepted
PasswordMatchesAny(typed, admin_password) == TRUE

\* st.session_state["password"] == ADMIN_PASSWORD
PasswordMatches(typed, admin_password) == typed = admin_password

\* del st.session_state[k]
DictDel(d, k) == [x \in DOMAIN d \ {k} |-> d[x]]

\* password_entered(): the callback of the password input, on the session's
\* state; st.secrets["admin_password"] raises when the secret is missing
password_entered(state, configured) ==
    IF configured = NoSecret
    THEN DictSet(state, "password_correct", FALSE)
    ELSE IF PasswordMatches(state["password"], configured)
         THEN DictDel(DictSet(state, "password_correct", TRUE), "password")
         ELSE DictSet(state, "password_correct", FALSE)

\* check_password(): what it renders and what it returns
check_password(state) ==
    IF "password_correct" \notin DOMAIN state
    THEN [rendered |-> "prompt", returns |-> FALSE]
    ELSE IF ~state["password_correct"]
         THEN [rendered |-> "prompt_error", returns |-> FALSE]
         ELSE [rendered |-> "nothing", returns |-> TRUE]

\* main(): st.stop() after the prompt, or the dashboard
main(state) ==
    IF ~check_password(state).returns THEN check_password(state).rendered ELSE "dashboard"

InitAdmin ==
    /\ secrets \in ConfiguredSecrets
    /\ session_state = [b \in Browsers |-> EmptySessionState]
    /\ rendered = [b \in Browsers |-> "nothing"]
    /\ entered = [b \in Browsers |-> {}]
    /\ pc = "idle" /\ caller = "none" /\ graph = EmptyGraph /\ start = None /\ end = None
    /\ max_routes = 0 /\ pq = <<>> /\ found_routes = <<>> /\ route_signatures = {}
    /\ routes = <<>> /\ outcome = "none" /\ dijkstra_result = <<None, None>>
    /\ path_arg = <<>> /\ legs = <<>> /\ shown = <<>>
    /\ QueriesIdle
    /\ service = NoCall
    /\ AnalyticsIdle

\* browser b opens the admin page: the script runs
OpenAdminPage(b) ==
    /\ rendered[b] = "nothing"
    /\ rendered' = [rendered EXCEPT ![b] = main(session_state[b])]
    /\ UNCHANGED <<secrets, session_state, entered, plannerVars, queryVars, analyticsVars, service>>

\* browser b submits the password input: the widget's value is stored under
\* its key, the callback runs, then the script
SubmitPassword(b) ==
    \E typed \in TypedPasswords :
        /\ rendered[b] \in {"prompt", "prompt_error"}
        /\ LET state == password_entered(DictSet(session_state[b], "password", typed), secrets)
           IN  /\ session_state' = [session_state EXCEPT ![b] = state]
               /\ rendered' = [rendered EXCEPT ![b] = main(state)]
        /\ entered' = [entered EXCEPT ![b] = @ \cup {typed}]
        /\ UNCHANGED <<secrets, plannerVars, queryVars, analyticsVars, service>>

\* browser b goes to another page of the site: same session
LeaveAdminPage(b) ==
    /\ rendered[b] # "nothing"
    /\ rendered' = [rendered EXCEPT ![b] = "nothing"]
    /\ UNCHANGED <<secrets, session_state, entered, plannerVars, queryVars, analyticsVars, service>>

\* browser b reloads the site: a new session
NewBrowserSession(b) ==
    /\ session_state[b] # EmptySessionState
    /\ session_state' = [session_state EXCEPT ![b] = EmptySessionState]
    /\ rendered' = [rendered EXCEPT ![b] = "nothing"]
    /\ entered' = [entered EXCEPT ![b] = {}]
    /\ UNCHANGED <<secrets, plannerVars, queryVars, analyticsVars, service>>

NextAdmin ==
    \E b \in Browsers :
        \/ OpenAdminPage(b)
        \/ SubmitPassword(b)
        \/ LeaveAdminPage(b)
        \/ NewBrowserSession(b)

SpecAdmin == InitAdmin /\ [][NextAdmin]_vars

----------------------------------------------------------------------------
(* The services called as functions. A call is one step: the function is   *)
(* sequential and shares nothing; `raised` tells that an exception left it. *)
(*                                                                          *)
(* fibula_status: the page is what BeautifulSoup makes of it, the <section> *)
(* elements in document order, each with its id and its <a> elements (href  *)
(* and text); a text is a list of words, spaces, non-breaking spaces and    *)
(* digits. BeautifulSoup raises for an html that is no string.             *)

\* mutant of Strip: nothing is removed
StripNothing(text) == text

\* text.strip(): without its leading and trailing spaces
Strip(text) ==
    LET solid == {i \in 1..Len(text) : text[i] # " "}
    IN  IF solid = {} THEN <<>>
        ELSE SubSeq(text, CHOOSE i \in solid : \A j \in solid : i <= j,
                          CHOOSE i \in solid : \A j \in solid : j <= i)

\* _parse_online_from_html(html)
parse_online_from_html(html) ==
    LET IsDigit(c) == c \in {"6", "9"}
        DigitValue(c) == IF c = "6" THEN 6 ELSE 9
        RECURSIVE IntOf(_)
        IntOf(digits) ==
            IF digits = <<>> THEN 0
            ELSE 10 * IntOf(SubSeq(digits, 1, Len(digits) - 1)) + DigitValue(digits[Len(digits)])
        \* text.replace("\xa0", " ").strip()
        Clean(text) == Strip([i \in 1..Len(text) |-> IF text[i] = "nbsp" THEN " " ELSE text[i]])
        \* re.search(r"(\d+)$", clean_text): where the last run of digits begins
        MatchStart(clean) ==
            CHOOSE k \in 1..(Len(clean) + 1) :
                /\ \A i \in k..Len(clean) : IsDigit(clean[i])
                /\ k > 1 => ~IsDigit(clean[k - 1])
        sidebars == SelectSeq(html.sections, LAMBDA s : s.id = "sidebar-misc")
        online_links == SelectSeq(sidebars[1].links,
                                  LAMBDA l : l.href = "https://amera.fibula.app/online")
        hits == SelectSeq(online_links,
                          LAMBDA l : /\ \E i \in 1..Len(l.text) : l.text[i] = "Amera"
                                     /\ MatchStart(Clean(l.text)) <= Len(Clean(l.text)))
        found == Clean(hits[1].text)
    IN  IF html.raises THEN [raised |-> FALSE, value |-> <<>>]
        ELSE IF sidebars = <<>> THEN [raised |-> FALSE, value |-> <<>>]
        ELSE IF hits = <<>> THEN [raised |-> FALSE, value |-> <<>>]
        ELSE [raised |-> FALSE,
              value |-> <<IntOf(SubSeq(found, MatchStart(found), Len(found)))>>]

\* fetch_online_count(): requests.get and raise_for_status end in a response
\* or in an exception, each of which an except clause turns into None
fetch_online_count(response) ==
    IF response.outcome # "ok" THEN [raised |-> FALSE, value |-> <<>>]
    ELSE parse_online_from_html(response.html)

\* _parse_online_from_html called with a page
ParseOnlineCall ==
    LET Words == {"Amera", "x", " ", "nbsp", "6", "9"}
        Texts == UNION {[1..k -> Words] : k \in 0..MaxTextLen}
        Anchors(texts) == {[href |-> h, text |-> x] :
                              h \in {"https://amera.fibula.app/online", "/other"}, x \in texts}
        Ids == {"sidebar-misc", "other"}
        few == Anchors({<<"Amera">>, <<"Amera", "nbsp", "6">>, <<"x", "9">>})
        Pages1 == {<<[id |-> i, links |-> <<l>>]>> : i \in Ids, l \in Anchors(Texts)}
        Pages2 == {<<[id |-> "sidebar-misc", links |-> <<l, m>>]>> : l \in few, m \in few}
        Pages3 == {<<[id |-> i, links |-> <<l>>], [id |-> j, links |-> <<m>>]>> :
                      i \in Ids, j \in Ids, l \in few, m \in few}
    IN  \E html \in {[raises |-> TRUE, sections |-> <<>>], [raises |-> FALSE, sections |-> <<>>]}
                     \cup {[raises |-> FALSE, sections |-> s] : s \in Pages1 \cup Pages2 \cup Pages3} :
            /\ service = NoCall
            /\ service' = [fn |-> "_parse_online_from_html", args |-> <<html>>,
                           raised |-> parse_online_from_html(html).raised,
                           value |-> parse_online_from_html(html).value]
            /\ UNCHANGED <<plannerVars, queryVars, analyticsVars, adminVars>>

\* fetch_online_count called: what requests.get and raise_for_status do
FetchOnlineCall ==
    LET board(text) == [raises |-> FALSE,
                        sections |-> <<[id |-> "sidebar-misc",
                                        links |-> <<[href |-> "https://amera.fibula.app/online",
                                                     text |-> text]>>]>>]
        bodies == {[raises |-> FALSE, sections |-> <<>>],
                   board(<<"Amera">>), board(<<"Amera", "nbsp", "6", "9">>)}
    IN  \E response \in {[outcome |-> o, html |-> [raises |-> FALSE, sections |-> <<>>]] :
                             o \in {"timeout", "connection_error", "http_error", "other_error"}}
                         \cup {[outcome |-> "ok", html |-> h] : h \in bodies} :
            /\ service = NoCall
            /\ service' = [fn |-> "fetch_online_count", args |-> <<response>>,
                           raised |-> fetch_online_count(response).raised,
                           value |-> fetch_online_count(response).value]
            /\ UNCHANGED <<plannerVars, queryVars, analyticsVars, adminVars>>

(* search_service: a string is the sequence of its characters.             *)

\* create_snippet(text, query, max_length), max_length >= 0
create_snippet(text, query, max_length) ==
    LET lower(s) == [i \in 1..Len(s) |-> IF s[i] = "A" THEN "a" ELSE s[i]]
        Min(a, b) == IF a <= b THEN a ELSE b
        Max(a, b) == IF a >= b THEN a ELSE b
        ellipsis == <<".", ".", ".">>
        text_lower == lower(text)
        query_lower == lower(query)
        \* str.find: the first index (from 0) where the query begins
        places == {p \in 0..(Len(text) - Len(query)) :
                      SubSeq(text_lower, p + 1, p + Len(query)) = query_lower}
        pos == IF places = {} THEN -1 ELSE CHOOSE p \in places : \A q \in places : p <= q
        half_length == max_length \div 2
        start_pos == Max(0, pos - half_length)
        end_pos == Min(Len(text), pos + Len(query) + half_length)
        snippet == SubSeq(text, start_pos + 1, end_pos)
    IN  IF text = <<>> \/ query = <<>>
        THEN (IF text # <<>> THEN SubSeq(text, 1, Min(max_length, Len(text))) ELSE <<>>)
        ELSE IF pos = -1
        THEN SubSeq(text, 1, Min(max_length, Len(text)))
             \o (IF Len(text) > max_length THEN ellipsis ELSE <<>>)
        ELSE (IF start_pos > 0 THEN ellipsis ELSE <<>>) \o snippet
             \o (IF end_pos < Len(text) THEN ellipsis ELSE <<>>)

\* create_snippet called from search_all's result building
CreateSnippetCall ==
    LET Chars == {"a", "A", "b"}
    IN  \E text \in UNION {[1..k -> Chars] : k \in 0..MaxTextLen},
           query \in UNION {[1..k -> Chars] : k \in 0..2},
           max_length \in 0..MaxTextLen :
            /\ service = NoCall
            /\ service' = [fn |-> "create_snippet", args |-> <<text, query, max_length>>,
                           raised |-> FALSE,
                           value |-> create_snippet(text, query, max_length)]
            /\ UNCHANGED <<plannerVars, queryVars, analyticsVars, adminVars>>

(* data_loader: npc_data is what json.load gave: None, a list, or another  *)
(* value. An entry is a dict or not; a dict's "npc", "price" and "location"  *)
(* are absent or hold a value of some JSON type.                            *)

\* parse_npc_prices(npc_data, validate, item_name)
parse_npc_prices(npc_data) ==
    LET \* entry.get(key, "").strip(): AttributeError for a value that is no str
        StripRaises(field) == field.tag \notin {"absent", "str"}
        Stripped(field) == IF field.tag = "absent" THEN <<>> ELSE Strip(field.chars)
        \* int(price): OverflowError for an infinite float
        IntRaises(price) == price.tag = "inf"
        IntFails(price) == price.tag \in {"text", "list"}
        RECURSIVE Loop(_, _)
        Loop(i, prices) ==
            IF i > Len(npc_data.entries) THEN [raised |-> FALSE, value |-> prices]
            ELSE LET entry == npc_data.entries[i]
                 IN  IF ~entry.is_dict THEN Loop(i + 1, prices)
                     ELSE IF StripRaises(entry.npc) \/ StripRaises(entry.location)
                     THEN [raised |-> TRUE, value |-> <<>>]
                     ELSE IF Stripped(entry.npc) = <<>> THEN Loop(i + 1, prices)
                     ELSE IF entry.price.tag \in {"absent", "none"} THEN Loop(i + 1, prices)
                     ELSE IF IntRaises(entry.price) THEN [raised |-> TRUE, value |-> <<>>]
                     ELSE IF IntFails(entry.price) THEN Loop(i + 1, prices)
                     ELSE Loop(i + 1, Append(prices, [npc |-> Stripped(entry.npc),
                                                     price |-> entry.price.int,
                                                     location |-> Stripped(entry.location)]))
    IN  IF npc_data.type # "list" \/ npc_data.entries = <<>>
        THEN [raised |-> FALSE, value |-> <<>>]
        ELSE Loop(1, <<>>)

\* parse_npc_prices called by a loader with an item's "sell_to"
ParseNpcPricesCall ==
    LET Field(tag) == [tag |-> tag, chars |-> <<>>, int |-> 0]
        Str(chars) == [tag |-> "str", chars |-> chars, int |-> 0]
        Num(tag, n) == [tag |-> tag, chars |-> <<>>, int |-> n]
        Names == {Field("absent"), Field("none"), Field("int"),
                  Str(<<>>), Str(<<" ">>), Str(<<"Rashid">>), Str(<<" ", "Rashid", " ">>)}
        Prices == {Field("absent"), Field("none"), Field("text"), Field("list"), Field("inf"),
                   Num("int", 12), Num("numeric_str", 12), Num("float", 12), Num("bool", 1)}
        Places == {Field("absent"), Field("none"), Str(<<"Thais", " ">>)}
        Dict(n, p, l) == [is_dict |-> TRUE, npc |-> n, price |-> p, location |-> l]
        NoDict == [Dict(Field("absent"), Field("absent"), Field("absent")) EXCEPT !.is_dict = FALSE]
        Entries == {NoDict} \cup {Dict(n, p, l) : n \in Names, p \in Prices, l \in Places}
        few == {NoDict,
                Dict(Str(<<"Rashid">>), Num("int", 12), Str(<<"Thais", " ">>)),
                Dict(Str(<<" ">>), Num("int", 12), Field("absent")),
                Dict(Str(<<"Rashid">>), Field("text"), Field("absent")),
                Dict(Field("none"), Num("int", 12), Field("absent"))}
        Lists == [1..1 -> Entries] \cup UNION {[1..k -> few] : k \in 0..MaxEntries}
    IN  \E npc_data \in {[type |-> y, entries |-> <<>>] : y \in {"none", "dict", "str", "list"}}
                         \cup {[type |-> "list", entries |-> es] : es \in Lists} :
            /\ service = NoCall
            /\ service' = [fn |-> "parse_npc_prices", args |-> <<npc_data>>,
                           raised |-> parse_npc_prices(npc_data).raised,
                           value |-> parse_npc_prices(npc_data).value]
            /\ UNCHANGED <<plannerVars, queryVars, analyticsVars, adminVars>>

NextServices ==
    \/ ParseOnlineCall
    \/ FetchOnlineCall
    \/ CreateSnippetCall
    \/ ParseNpcPricesCall

SpecServices == Init /\ [][NextServices]_vars
----------------------------------------------------------------------------
(* Reference definitions used by the properties *)

\* find_all_routes has been entered and has returned `routes`
Returned == pc \in {"returned", "done"} /\ max_routes > 0

\* the connections of g as <<from, to, cost>>
Edges(g) == UNION {{<<k, g[k][i][1], g[k][i][2]>> : i \in 1..Len(g[k])} : k \in DOMAIN g}

HasEdge(g, a, b) == a \in DOMAIN g /\ \E i \in 1..Len(g[a]) : g[a][i][1] = b

SetMin(S) == CHOOSE x \in S : \A y \in S : x <= y

\* one round of relaxation of a set of <<location, distance>> pairs
RelaxOnce(g, dist) ==
    LET known == {p[1] : p \in dist}
        DistOf(v) == (CHOOSE p \in dist : p[1] = v)[2]
        reached == known \cup {e[2] : e \in {x \in Edges(g) : x[1] \in known}}
        Candidates(v) ==
            (IF v \in known THEN {DistOf(v)} ELSE {})
            \cup {DistOf(e[1]) + e[3] : e \in {x \in Edges(g) : x[1] \in known /\ x[2] = v}}
    IN  {<<v, SetMin(Candidates(v))>> : v \in reached}

RECURSIVE RelaxRounds(_, _, _)
RelaxRounds(g, dist, rounds) ==
    IF rounds = 0 THEN dist ELSE RelaxRounds(g, RelaxOnce(g, dist), rounds - 1)

\* the reference shortest distances from s: <<location, distance>> for every
\* location reachable from s
ShortestDistances(g, s) == RelaxRounds(g, {<<s, 0>>}, Cardinality(GraphLocations(g)))

Reachable(g, s, e) == \E p \in ShortestDistances(g, s) : p[1] = e

\* the least cost of a path from s to e (e reachable from s)
MinCost(g, s, e) == (CHOOSE p \in ShortestDistances(g, s) : p[1] = e)[2]

NoRepeats(path) == Cardinality({path[i] : i \in 1..Len(path)}) = Len(path)

FollowsEdges(g, path) == \A i \in 1..(Len(path) - 1) : HasEdge(g, path[i], path[i + 1])

\* a simple path of the graph from the start of the search to `last`
SimplePathTo(path, last) ==
    /\ path # <<>>
    /\ path[1] = start
    /\ path[Len(path)] = last
    /\ NoRepeats(path)
    /\ FollowsEdges(graph, path)

----------------------------------------------------------------------------
(* Properties *)

\* C1: when the graph has a direct connection start -> end of cost c,
\* find_all_routes (max_routes >= 1) returns at least one route of total
\* cost <= c.
C1_NoWorseThanDirect ==
    Returned =>
        \A e \in Edges(graph) :
            (e[1] = start /\ e[2] = end) =>
                \E i \in 1..Len(routes) : routes[i][1] <= e[3]

\* C1 case: Carlin -> Venore with carpets and max_routes = 1: the boat costs
\* 130 and the route returned (over the carpets) costs less.
C1_Witness ==
    /\ Returned
    /\ graph = GraphCarpets /\ start = "Carlin" /\ end = "Venore"
    /\ HasEdge(graph, start, end)
    /\ routes # <<>>
    /\ routes[1][1] < 130

\* C2 (as claimed): the first route the page shows has the least total cost
\* of all paths from start to end in the built graph.
C2_FirstRouteIsCheapest ==
    (pc = "done" /\ caller = "main" /\ outcome = "routes_shown") =>
        routes[1][1] = MinCost(graph, start, end)

\* C3: the returned list is in non-decreasing order of total cost and holds
\* no path twice.
C3_SortedNoDuplicates ==
    Returned =>
        \A i, j \in 1..Len(routes) :
            i < j => (routes[i][1] <= routes[j][1] /\ routes[i][2] # routes[j][2])

\* C3 case: two routes of different cost are returned after a record with an
\* already accepted path was popped (the connection A -> B is listed twice).
C3_Witness ==
    /\ Returned
    /\ graph = GraphDuplicateEdge /\ start = "A" /\ end = "D"
    /\ Len(routes) = 2
    /\ routes[1][1] < routes[2][1]

\* C4: every returned path, and the path of every record in the queue, is a
\* simple path of the graph from start (to end, resp. to the record's
\* current location).
C4_PathsAreSimple ==
    /\ \A i \in 1..Len(pq) : SimplePathTo(pq[i].path, pq[i].current)
    /\ Returned => \A i \in 1..Len(routes) : SimplePathTo(routes[i][2], end)

\* C4 case: a route of three or more locations is returned while records
\* are still queued.
C4_Witness ==
    /\ Returned
    /\ routes # <<>>
    /\ Len(routes[1][2]) >= 3
    /\ pq # <<>>
    /\ \E i \in 1..Len(pq) : Len(pq[i].path) >= 3

\* the connections of the boat, ice-island and walking sets
BoatEdges == {<<BOAT_ROUTES[i][1], BOAT_ROUTES[i][2]>> : i \in 1..Len(BOAT_ROUTES)}
IceIslandEdges ==
    UNION {{<<"Carlin", ICE_ISLANDS[i]>>, <<ICE_ISLANDS[i], "Carlin">>} : i \in 1..Len(ICE_ISLANDS)}
WalkingEdges ==
    UNION {{<<nearby_cities[i][1], nearby_cities[i][2]>>, <<nearby_cities[i][2], nearby_cities[i][1]>>} :
           i \in 1..Len(nearby_cities)}

\* C5: on the graph built with include_carpets false no returned route holds
\* a carpet location, and every leg of every returned route is a boat,
\* ice-island or walking connection.
C5_CategoryGating ==
    (Returned /\ graph = GraphNoCarpets) =>
        \A i \in 1..Len(routes) :
            /\ ~UsesCarpet(routes[i][2])
            /\ \A k \in 1..(Len(routes[i][2]) - 1) :
                   <<routes[i][2][k], routes[i][2][k + 1]>>
                       \in BoatEdges \cup IceIslandEdges \cup WalkingEdges

\* C5 case: Edron -> Darashia without carpets (with them the carpet is the
\* direct route): a route is returned.
C5_Witness ==
    /\ Returned
    /\ graph = GraphNoCarpets
    /\ start = "Edron" /\ end = "Darashia"
    /\ routes # <<>>

\* the transfers between a city and its own carpet
CollapsiblePairs == {<<"Edron", "Edron Carpet">>, <<"Edron Carpet", "Edron">>,
                     <<"Darashia", "Darashia Carpet">>, <<"Darashia Carpet", "Darashia">>}

\* exactly one step once the city <-> carpet transfers are discounted
OneRealStep(path) ==
    Cardinality({i \in 1..(Len(path) - 1) : <<path[i], path[i + 1]>> \notin CollapsiblePairs}) = 1

SomeAcceptedIsDirect == \E i \in 1..Len(found_routes) : OneRealStep(found_routes[i][2])

\* C6: whenever an accepted candidate is direct, find_all_routes returns
\* only direct routes, at most 2 of them, in ascending order of cost.
C6_DirectPolicy ==
    (Returned /\ SomeAcceptedIsDirect) =>
        /\ Len(routes) \in {1, 2}
        /\ \A i \in 1..Len(routes) : OneRealStep(routes[i][2])
        /\ \A i, j \in 1..Len(routes) : i < j => routes[i][1] <= routes[j][1]

\* C6 case: three direct candidates are accepted (Darashia -> Edron over the
\* carpets and by boat) and two are returned.
C6_Witness ==
    /\ Returned
    /\ Cardinality({i \in 1..Len(found_routes) : OneRealStep(found_routes[i][2])}) >= 3
    /\ Len(routes) = 2
    /\ routes[1][1] < routes[2][1]

NoDirectAccepted == Returned /\ found_routes # <<>> /\ ~SomeAcceptedIsDirect

\* C7 (as claimed): with no direct candidate, the cheapest accepted route is
\* returned plus at most one more, and a second route is returned only if it
\* differs from the cheapest in whether it uses a carpet.
C7_SecondDiffersInCarpetUse ==
    NoDirectAccepted =>
        /\ Len(routes) \in {1, 2}
        /\ routes[1] = found_routes[1]
        /\ Len(routes) = 2 => UsesCarpet(routes[2][2]) # UsesCarpet(routes[1][2])

\* C7 (amended): with no direct candidate, the cheapest accepted route is
\* returned plus at most one more; when more than two candidates were
\* accepted the second differs from the cheapest in whether it uses a
\* carpet, and when at most two were accepted all of them are returned.
C7_NoDirectPolicy ==
    NoDirectAccepted =>
        /\ Len(routes) \in {1, 2}
        /\ routes[1] = found_routes[1]
        /\ \A i \in 1..Len(found_routes) : routes[1][1] <= found_routes[i][1]
        /\ Len(found_routes) <= 2 => routes = found_routes
        /\ (Len(found_routes) > 2 /\ Len(routes) = 2) =>
               /\ UsesCarpet(routes[2][2]) # UsesCarpet(routes[1][2])
               /\ \E i \in 2..Len(found_routes) : routes[2] = found_routes[i]

\* C7 case: more than two candidates, none direct, and the second returned
\* route differs from the cheapest in carpet use.
C7_Witness ==
    /\ NoDirectAccepted
    /\ Len(found_routes) > 2
    /\ Len(routes) = 2
    /\ UsesCarpet(routes[2][2]) # UsesCarpet(routes[1][2])

\* C8 (as claimed): a query with start = end yields no route: the search
\* does not return the zero-length path, dijkstra returns no path, and the
\* page shows the same-city warning, not the no-route error.
C8_SameEndpointYieldsNoRoute ==
    /\ (Returned /\ start = end) => routes = <<>>
    /\ (pc = "done" /\ caller = "dijkstra" /\ start = end) => dijkstra_result = <<None, None>>
    /\ (pc = "done" /\ caller = "main" /\ start = end /\ start # None) =>
           outcome = "same_city_warning"

\* what the caller of find_all_routes can tell from the returned list
ObservedOutcome == IF routes = <<>> THEN "no_route_found" ELSE "routes_found"

\* C9 (as claimed): a query whose start or end is no location of the graph
\* is not reported as the empty list that means 'no route found'.
C9_UnknownLocationSurfaced ==
    (Returned /\ (start \notin GraphLocations(graph) \/ end \notin GraphLocations(graph))) =>
        ObservedOutcome # "no_route_found"

NoPathQuery ==
    /\ Returned
    /\ start \in GraphLocations(graph) /\ end \in GraphLocations(graph)
    /\ start # end
    /\ ~Reachable(graph, start, end)

\* C10: when the graph has no path from start to end (both locations of the
\* graph, start # end), find_all_routes returns the empty list with the
\* queue exhausted, and dijkstra returns (None, None).
C10_NoPathReturnsEmpty ==
    NoPathQuery =>
        /\ routes = <<>>
        /\ pq = <<>>
        /\ (caller = "dijkstra" /\ pc = "done") => dijkstra_result = <<None, None>>

\* C10 case: dijkstra from A to C on the graph of two components.
C10_Witness ==
    /\ NoPathQuery
    /\ graph = GraphDisconnected /\ start = "A" /\ end = "C"
    /\ caller = "dijkstra" /\ pc = "done"
    /\ dijkstra_result = <<None, None>>

\* a run of session s has its list of routes
HasRoutes(s) == sessions[s].pc \in {"show", "done"}

\* C11: a script run with the same carpet flag, start and end as an earlier
\* run returns the same list of routes as that run, whatever ran between
\* the two or runs beside them.
C11_RepeatableResults ==
    \A s \in Sessions :
        (HasRoutes(s) /\ first_result # NoResult /\ QueryOf(sessions[s]) = first_result[1].query) =>
            sessions[s].all_routes = first_result[1].all_routes

\* C11 case: Darashia -> Carlin with carpets was run first by one session
\* and is run again by the other, which has its list of two routes, while
\* the first session is in the search of a run without carpets.
C11_Witness ==
    /\ first_result # NoResult
    /\ first_result[1].query = <<TRUE, "Darashia", "Carlin">>
    /\ \E s \in Sessions \ {first_result[1].by} :
           /\ sessions[s].pc = "done"
           /\ QueryOf(sessions[s]) = first_result[1].query
           /\ Len(sessions[s].all_routes) = 2
    /\ sessions[first_result[1].by].pc = "loop"
    /\ ~sessions[first_result[1].by].include_carpets

\* build_graph has returned to the run of session s
GraphBuilt(s) == sessions[s].pc \in {"built", "loop", "show", "done"}

\* C12: no step changes the module-level tables; build_graph binds `graph`
\* to a dict that did not exist before; and once build_graph has returned
\* to a run, no step of any run (the search, the formatting, another run's
\* build_graph) changes the graph the run holds.
C12_FrameCondition ==
    [][/\ catalog' = catalog
       /\ \A s \in Sessions :
              /\ (sessions[s].graph = NoObject /\ sessions'[s].graph # NoObject) =>
                     sessions'[s].graph \notin DOMAIN objects
              /\ (GraphBuilt(s) /\ sessions'[s].graph = sessions[s].graph) =>
                     objects'[sessions[s].graph] = objects[sessions[s].graph]]_vars

\* C12 case: one run holds the graph built without carpets and is in its
\* search while the other run is inside build_graph with carpets.
C12_Witness ==
    \E s, u \in Sessions :
        /\ sessions[s].pc = "loop" /\ ~sessions[s].include_carpets
        /\ objects[sessions[s].graph] = GraphNoCarpets
        /\ sessions[u].pc = "carpets"
        /\ sessions[u].graph # sessions[s].graph
        /\ catalog = Catalog

\* C13: a run whose steps interleave with another run's returns the routes,
\* and shows the legs, that the run of the same query returned and showed
\* when it ran with no other run in the process.
C13_ConcurrentAsAlone ==
    \A s \in Sessions :
        (first_result # NoResult /\ first_result[1].alone
            /\ QueryOf(sessions[s]) = first_result[1].query) =>
                /\ HasRoutes(s) => sessions[s].all_routes = first_result[1].all_routes
                /\ sessions[s].pc = "done" => sessions[s].shown = first_result[1].shown

\* C13 case: after Darashia -> Carlin with carpets ran alone, both sessions
\* are in a run of Darashia -> Carlin at once, one with and one without
\* carpets, each with its list of routes and about to format it.
C13_Witness ==
    /\ first_result # NoResult
    /\ first_result[1].alone
    /\ first_result[1].query = <<TRUE, "Darashia", "Carlin">>
    /\ \E s, u \in Sessions :
           /\ sessions[s].pc = "show" /\ sessions[u].pc = "show"
           /\ QueryOf(sessions[s]) = <<TRUE, "Darashia", "Carlin">>
           /\ QueryOf(sessions[u]) = <<FALSE, "Darashia", "Carlin">>
           /\ Len(sessions[s].all_routes) = 2
           /\ Len(sessions[u].all_routes) = 1

\* format_route has returned `legs` for path_arg to a direct caller
FormatReturned == pc = "done" /\ caller = "direct" /\ max_routes = 0

\* C14 (as claimed): a path [H, H', Z] whose first step is a city <-> carpet
\* transfer formats to exactly one leg, reported as going from H to Z.
C14_HubTransferCollapsed ==
    (/\ FormatReturned
     /\ Len(path_arg) = 3
     /\ <<path_arg[1], path_arg[2]>> \in CollapsiblePairs
     /\ <<path_arg[2], path_arg[3]>> \notin CollapsiblePairs) =>
        /\ Len(legs) = 1
        /\ legs[1].from = path_arg[1]
        /\ legs[1].to = path_arg[3]

\* every connection of g between consecutive locations of p costs 0
AllConnectionsFree(g, p) ==
    \A k \in 1..(Len(p) - 1) :
        /\ p[k] \in DOMAIN g
        /\ \A i \in 1..Len(g[p[k]]) : g[p[k]][i][1] = p[k + 1] => g[p[k]][i][2] = 0

\* C15: a returned route over zero-cost connections only has total cost 0;
\* on a built graph a query from an ice island to Carlin returns exactly
\* one route, the free return, and the query from Carlin to the island
\* returns the connection of cost 20.
C15_FreeConnections ==
    Returned =>
        /\ \A i \in 1..Len(routes) :
               AllConnectionsFree(graph, routes[i][2]) => routes[i][1] = 0
        /\ (graph \in BuiltGraphs /\ start \in IceIslandSet /\ end = "Carlin") =>
               routes = << <<0, <<start, "Carlin">> >> >>
        /\ (graph \in BuiltGraphs /\ start = "Carlin" /\ end \in IceIslandSet) =>
               routes = << <<20, <<"Carlin", end>> >> >>

\* C15 case: the page has shown Folda -> Carlin: one route, one leg, free.
C15_Witness ==
    /\ pc = "done" /\ caller = "main"
    /\ start = "Folda" /\ end = "Carlin"
    /\ Len(routes) = 1
    /\ routes[1][1] = 0
    /\ Len(shown) = 1
    /\ shown[1].legs = <<[from |-> "Folda", to |-> "Carlin", cost |-> 0,
                          transport |-> "Boat (Free Return)"]>>

RECURSIVE SumOf(_)
SumOf(numbers) == IF numbers = <<>> THEN 0 ELSE Head(numbers) + SumOf(Tail(numbers))

\* the costs of the connections along p, each at its first listing
StepCosts(g, p) == [k \in 1..(Len(p) - 1) |-> LegCost(g, p[k], p[k + 1])]

\* C16: for start # end with a path between them, dijkstra returns a simple
\* path from start to end whose total cost is the least cost of any path
\* from start to end.
C16_DijkstraIsShortest ==
    (/\ pc = "done" /\ caller = "dijkstra"
     /\ start # end
     /\ Reachable(graph, start, end)) =>
        /\ dijkstra_result[1] = MinCost(graph, start, end)
        /\ SimplePathTo(dijkstra_result[2], end)
        /\ SumOf(StepCosts(graph, dijkstra_result[2])) = dijkstra_result[1]

\* C16 case: from A to C on the triangle dijkstra returns the two-leg path
\* of cost 20, not the direct connection of cost 25.
C16_Witness ==
    /\ pc = "done" /\ caller = "dijkstra"
    /\ graph = GraphTriangle /\ start = "A" /\ end = "C"
    /\ dijkstra_result = <<20, <<"A", "B", "C">> >>

\* C17: format_route renders a path as as many legs as find_all_routes
\* counts real steps in it; so a path is direct for the search exactly
\* when it is rendered as one leg.
C17_LegsAreRealSteps ==
    FormatReturned =>
        /\ Len(legs) = RealSteps(path_arg)
        /\ IsDirect(path_arg) <=> Len(legs) = 1

\* C17 case: Darashia -> its carpet -> Edron's carpet -> Edron is direct and
\* is rendered as one leg.
C17_Witness ==
    /\ FormatReturned
    /\ path_arg = <<"Darashia", "Darashia Carpet", "Edron Carpet", "Edron">>
    /\ IsDirect(path_arg)
    /\ Len(legs) = 1

LegCostsOf(formatted) == [k \in 1..Len(formatted) |-> formatted[k].cost]

\* C18: for every route find_all_routes returns on a built graph, the costs
\* of the legs format_route makes of its path add up to its total cost;
\* so do the legs the page shows with every route.
C18_LegCostsAddUp ==
    /\ (Returned /\ graph \in BuiltGraphs) =>
           \A i \in 1..Len(routes) :
               SumOf(LegCostsOf(format_route(routes[i][2], graph))) = routes[i][1]
    /\ (pc = "done" /\ caller = "main" /\ outcome = "routes_shown") =>
           /\ Len(shown) = Len(routes)
           /\ \A i \in 1..Len(shown) :
                  /\ shown[i].total_cost = routes[i][1]
                  /\ SumOf(LegCostsOf(shown[i].legs)) = shown[i].total_cost

\* C18 case: the page has shown Edron -> Darashia over the carpets: a path
\* of four locations, one leg, and the leg's cost is the total.
C18_Witness ==
    /\ pc = "done" /\ caller = "main" /\ outcome = "routes_shown"
    /\ start = "Edron" /\ end = "Darashia"
    /\ Len(routes[1][2]) = 4
    /\ Len(shown[1].legs) = 1
    /\ shown[1].legs[1].cost = shown[1].total_cost
    /\ shown[1].total_cost > 0

\* a step of the loop pushes only records that have visited more than the
\* record popped
PushedVisitMore ==
    (pc = "loop" /\ pc' = "loop" /\ pq # <<>>) =>
        LET kept == {Tail(pq)[i] : i \in 1..(Len(pq) - 1)}
        IN  \A i \in 1..Len(pq') :
                pq'[i] \notin kept =>
                    /\ HeapTop(pq).visited \subseteq pq'[i].visited
                    /\ HeapTop(pq).visited # pq'[i].visited

\* C25: find_all_routes terminates: every record pushed has a strictly larger
\* visited set than the record it was pushed for, and a search that is in
\* its loop eventually returns.
C25_SearchTerminates == [][PushedVisitMore]_vars /\ (pc = "loop" ~> pc # "loop")

\* C25 case: on the cyclic graph of two components the search from A for C
\* with max_routes = 2 has returned with its queue exhausted.
C25_Witness ==
    /\ pc = "done" /\ caller = "direct"
    /\ graph = GraphDisconnected /\ start = "A" /\ end = "C" /\ max_routes = 2
    /\ pq = <<>> /\ routes = <<>>

\* C26: find_all_routes returns at most min(2, max_routes) routes.
C26_AtMostTwoRoutes ==
    Returned => Len(routes) <= (IF max_routes < 2 THEN max_routes ELSE 2)

\* C26 case: three candidates, all direct, were found with max_routes = 3 and
\* two are returned.
C26_Witness ==
    /\ Returned
    /\ max_routes = 3
    /\ Len(found_routes) = 3
    /\ Len(SelectDirect(found_routes)) = 3
    /\ Len(routes) = 2

\* C27: for two different cities of ALL_CITIES and either value of
\* include_carpets the page's search returns at least one route: the page
\* never shows 'No route found'.
C27_NoRouteFoundUnreachable ==
    /\ outcome # "no_route_error"
    /\ (caller = "main" /\ pc = "returned") => routes # <<>>

\* C27 case: the page has shown the routes from Kazordoon to Folda without
\* carpets.
C27_Witness ==
    /\ pc = "done" /\ caller = "main" /\ outcome = "routes_shown"
    /\ graph = GraphNoCarpets /\ start = "Kazordoon" /\ end = "Folda"
    /\ routes # <<>>

\* the run of s1 that is shown and the remembered first run are for the same
\* two cities, `with` carpets and `without`
Compared(with, without) ==
    /\ with[1] /\ ~without[1]
    /\ with[2] = without[2] /\ with[3] = without[3]

\* the cost of the first route of a returned list, which has one
FirstCostNoMore(with_routes, without_routes) ==
    without_routes # <<>> => (with_routes # <<>> /\ with_routes[1][1] <= without_routes[1][1])

\* C28: for two different cities of ALL_CITIES, the first route returned with
\* carpets costs no more than the first route returned without them.
C28_CarpetsNeverCostMore ==
    (sessions["s1"].pc = "done" /\ first_result # NoResult) =>
        /\ Compared(QueryOf(sessions["s1"]), first_result[1].query) =>
               FirstCostNoMore(sessions["s1"].all_routes, first_result[1].all_routes)
        /\ Compared(first_result[1].query, QueryOf(sessions["s1"])) =>
               FirstCostNoMore(first_result[1].all_routes, sessions["s1"].all_routes)

\* C28 case: Edron -> Darashia was asked without carpets first (the boat)
\* and then with carpets, where the first route is cheaper.
C28_Witness ==
    /\ sessions["s1"].pc = "done" /\ first_result # NoResult
    /\ first_result[1].query = <<FALSE, "Edron", "Darashia">>
    /\ QueryOf(sessions["s1"]) = <<TRUE, "Edron", "Darashia">>
    /\ sessions["s1"].all_routes[1][1] < first_result[1].all_routes[1][1]

\* the calls of track_page_view that have returned
CallsReturned == SumValues(tracked.calls, Pages)

\* no thread is inside track_page_view
NoCallInProgress == \A t \in Threads : threads[t].pc = "idle"

\* C19: once the calls of track_page_view made by the threads have all
\* returned, get_total_page_views() is the total on file at the start plus
\* the number of calls, and every page's count is its count at the start
\* plus the number of calls made for it.
C19_NoLostPageView ==
    NoCallInProgress =>
        /\ get_total_page_views(analytics_file) =
               SumValues(tracked.previous, Pages) + CallsReturned
        /\ \A p \in Pages :
               DictGet(get_page_views(analytics_file), p, 0) =
                   tracked.previous[p] + tracked.calls[p]

\* C19 case: three calls have returned, two of them for Home, on top of the
\* two views of Home on file at the start.
C19_Witness ==
    /\ NoCallInProgress
    /\ tracked.previous["Home"] = 2
    /\ tracked.calls["Home"] = 2 /\ tracked.calls["Weapons"] = 1
    /\ get_page_views(analytics_file)["Home"] = 4
    /\ get_total_page_views(analytics_file) = 5

\* the timeline a reader gets from the file
StoredTimeline == DictGet(load_analytics_data(analytics_file), "timeline", <<>>)

\* C24: with no call inside the lock, the stored timeline holds the most
\* recent TimelineKeep views tracked since the last reset (all of them, when
\* they are fewer), in the order they were tracked.
C24_TimelineKeepsRecent ==
    lock = NoThread =>
        LET n == Len(tracked.views)
            kept == IF n < TimelineKeep THEN n ELSE TimelineKeep
        IN  /\ Len(StoredTimeline) = kept
            /\ \A i \in 1..kept : StoredTimeline[i] = tracked.views[n - kept + i]

\* C24 case: two views tracked on top of a timeline one short of the length
\* kept: the oldest entry is gone and the view of Weapons is the last.
C24_Witness ==
    /\ lock = NoThread
    /\ Len(tracked.views) = TimelineKeep + 1
    /\ Len(StoredTimeline) = TimelineKeep
    /\ StoredTimeline[TimelineKeep].page = "Weapons"
    /\ StoredTimeline[TimelineKeep - 1].page = "Home"
    /\ StoredTimeline[TimelineKeep - 1].session_id = "sid1"

\* the file as it was before the write in progress, and as that write leaves it
FileBeforeWrite == IF lock = NoThread THEN analytics_file ELSE tracked.before
FileAfterWrite ==
    IF lock # NoThread /\ threads[lock].pc \in {"open", "dump", "release"}
    THEN threads[lock].data
    ELSE FileBeforeWrite

\* C29 (as claimed): the data a reader loads while a write may be in
\* progress is the stored data as it was before that write or as it is after
\* it.
C29_ReadersSeeBeforeOrAfter ==
    [][\A t \in Threads :
          (threads[t].pc = "idle" /\ threads'[t].pc = "read") =>
              WithStructure(threads'[t].data[1]) \in
                  {WithStructure(load_analytics_data(FileBeforeWrite)),
                   WithStructure(load_analytics_data(FileAfterWrite))}]_vars

\* C30 (as claimed): a call of track_page_view that found the file missing
\* or unparseable and saved has stored exactly its one view; a call whose
\* save failed has left the file as it found it.
C30_FileErrorsContained ==
    \A t \in Threads :
        /\ (threads[t].pc = "release" /\ threads[t].op = "track"
                /\ tracked.before \in {NoFile, Unparseable}) =>
               analytics_file =
                   <<Updated(EmptyData, threads[t].page_name, threads[t].session_id)>>
        /\ (threads[t].pc = "dropped" /\ threads[t].op = "track") =>
               analytics_file = tracked.before

\* the admin password has been entered in browser b's session
Authenticated(b) == secrets # NoSecret /\ secrets \in entered[b]

\* browser b's session is granted access
AccessGranted(b) ==
    \/ rendered[b] = "dashboard"
    \/ check_password(session_state[b]).returns
    \/ DictGet(session_state[b], "password_correct", FALSE)

\* C20: a session is shown the dashboard, and check_password returns True
\* for it, only if a password equal to the configured admin_password has been
\* entered in that session; with no input, only wrong passwords, or no
\* secret configured, password_correct is unset or False.
C20_DashboardOnlyAuthenticated == \A b \in Browsers : AccessGranted(b) => Authenticated(b)

\* C20 case: one session sees the dashboard after a wrong and then the right
\* password, while the other, having entered only the wrong one, is refused.
C20_Witness ==
    /\ secrets = "admin"
    /\ rendered["b1"] = "dashboard" /\ entered["b1"] = {"guess", "admin"}
    /\ rendered["b2"] = "prompt_error" /\ entered["b2"] = {"guess"}
    /\ session_state["b2"]["password_correct"] = FALSE

\* the integer a text ends with, trailing blanks aside, in a list; empty
\* when the text ends with no digit
TrailingInteger(text) ==
    LET solid == {i \in 1..Len(text) : text[i] \notin {" ", "nbsp"}}
        last == CHOOSE i \in solid : \A j \in solid : j <= i
        run == {k \in 1..last : \A i \in k..last : text[i] \in {"6", "9"}}
        first == CHOOSE k \in run : \A j \in run : k <= j
        digit(i) == IF text[i] = "6" THEN 6 ELSE 9
        number[i \in (first - 1)..last] ==
            IF i < first THEN 0 ELSE 10 * number[i - 1] + digit(i)
    IN  IF solid = {} \/ run = {} THEN <<>> ELSE <<number[last]>>

\* the online count a page shows: the trailing integer of the first 'Amera'
\* link to the online list inside section#sidebar-misc that ends with one
OnlineShown(html) ==
    LET sidebar == {i \in 1..Len(html.sections) : html.sections[i].id = "sidebar-misc"}
        links == html.sections[CHOOSE i \in sidebar : \A j \in sidebar : i <= j].links
        counted == {i \in 1..Len(links) :
                     /\ links[i].href = "https://amera.fibula.app/online"
                     /\ \E k \in 1..Len(links[i].text) : links[i].text[k] = "Amera"
                     /\ TrailingInteger(links[i].text) # <<>>}
    IN  IF html.raises \/ sidebar = {} \/ counted = {} THEN <<>>
        ELSE TrailingInteger(links[CHOOSE i \in counted : \A j \in counted : i <= j].text)

\* C21: the online-count service never raises: _parse_online_from_html
\* returns the trailing integer of the 'Amera' link inside
\* section#sidebar-misc when there is one and None in every other case, and
\* fetch_online_count returns None on a timeout, an HTTP or network error or
\* any other failure, and what the page shows otherwise.
C21_OnlineCountNeverRaises ==
    /\ service.fn = "_parse_online_from_html" =>
           ~service.raised /\ service.value = OnlineShown(service.args[1])
    /\ service.fn = "fetch_online_count" =>
           /\ ~service.raised
           /\ service.value = IF service.args[1].outcome = "ok"
                               THEN OnlineShown(service.args[1].html) ELSE <<>>

\* C21 case: the page's 'Amera' link ends with blanks after its number, and
\* the number is returned.
C21_Witness ==
    /\ service.fn = "_parse_online_from_html"
    /\ Len(service.args[1].sections) = 1
    /\ service.args[1].sections[1].links[1].text \in {<<"Amera", "6", " ">>, <<"Amera", "9", "nbsp">>}
    /\ service.value # <<>>

\* C22: create_snippet returns a snippet no longer than max_length, for
\* every text and query.
C22_SnippetWithinMaxLength ==
    service.fn = "create_snippet" => Len(service.value) <= service.args[3]

\* the entries of npc_data that are a dict with a non-blank string name and
\* a price int() converts
ValidEntries(npc_data) ==
    {i \in 1..Len(npc_data.entries) :
        LET entry == npc_data.entries[i]
        IN  /\ entry.is_dict
            /\ entry.npc.tag = "str"
            /\ \E k \in 1..Len(entry.npc.chars) : entry.npc.chars[k] # " "
            /\ entry.price.tag \in {"int", "numeric_str", "float", "bool"}}

\* C23: parse_npc_prices never raises: it returns one NPCPrice for each entry
\* that is a dict with a non-empty name and an int-convertible price, skips
\* the other entries, and returns [] for an input that is no non-empty list.
C23_ParseNpcPricesNeverRaises ==
    service.fn = "parse_npc_prices" =>
        /\ ~service.raised
        /\ Len(service.value) = Cardinality(ValidEntries(service.args[1]))

TypeOK ==
    /\ pc \in {"idle", "loop", "returned", "done"}
    /\ caller \in {"none", "main", "dijkstra", "direct"}

====
